---- MODULE Spec2Model ----
(***************************************************************************)
(* Brew News: feed ingestion pipeline.                                     *)
(*   src/src/app/actions.ts  (lines 1-310)  fetchRssFeed, getStoredFeedItems,*)
(*                                          storeFeedItems                 *)
(*   src/src/app/page.tsx    (lines 175-411) Home, loadFeeds               *)
(*   src/src/ai/flows/summarize-release-notes-flow.ts (lines 1-112)        *)
(*                                                                         *)
(* Text is a sequence of lexemes (tags, entities, runs of characters);    *)
(* a link is its sequence of UTF-8 bytes; an instant is a number of hours  *)
(* since 2025-06-01T00:00 (the process runs in UTC).                       *)
(* The diagnostic log sink (addLog) is an external collaborator that       *)
(* always resolves; it holds no state of the pipeline and is not modelled. *)
(***************************************************************************)
EXTENDS Integers, Sequences, FiniteSets, TLC

(*************************** bounds of the model ***************************)
\* longest source list returned by getFeedUrls
MaxSources == 2
\* longest item list handed to storeFeedItems by the stand-alone writer
MaxItems == 2

(***************************** generic helpers *****************************)
Range(s) == {s[i] : i \in 1..Len(s)}

RECURSIVE Flatten(_)
\* Array.prototype.flat over a sequence of sequences
Flatten(ss) == IF ss = <<>> THEN <<>> ELSE Head(ss) \o Flatten(Tail(ss))

\* optional values: <<>> is undefined, <<v>> is v
None == <<>>
Some(v) == <<v>>

(********************************* time ************************************)
\* first hour of day d (day 0 is 2025-06-01)
DayStart(d) == d * 24
\* "now" of every new Date(): 2025-07-20T12:00
Now == DayStart(49) + 12
\* calendar month of an instant, as year*12+month, over May..August 2025
MonthOf(t) ==
    IF t < 0 THEN 24304
    ELSE IF t < DayStart(30) THEN 24305
    ELSE IF t < DayStart(61) THEN 24306
    ELSE 24307
\* date-fns subMonths(now, 1): same day of the previous month (June has a 20th)
SubOneMonth(t) == t - DayStart(30)

\* a pubDate string: empty, text that new Date() cannot parse, or a date
NoDate == [kind |-> "empty", t |-> 0]
BadDate == [kind |-> "garbage", t |-> 0]
DateAt(t) == [kind |-> "date", t |-> t]
DaysAgo(d) == DateAt(Now - DayStart(d))
\* new Date().toISOString().split('T')[0]: today at 00:00
Today == DateAt(Now - (Now % 24))

\* !isNaN(new Date(p).getTime()); new Date("") is invalid too
Parses(p) == p.kind = "date"

\* integer division truncating toward zero
TruncDiv(a, b) == IF a >= 0 THEN a \div b ELSE -((-a) \div b)
\* date-fns differenceInDays(now, d): full 24 h periods, truncated toward zero
differenceInDays(later, earlier) == TruncDiv(later - earlier, 24)

(********************************* text ************************************)
\* A text is a sequence of lexemes: a markup lexeme, a run of characters that
\* holds none of & < > ; and no blank at its ends, a blank, or one character.
\* Entities are spelled character by character.
Tags == {"<h3>", "</h3>", "<p>", "</p>", "<ul>", "</ul>"}
H3 == "<h3>"
H3Close == "</h3>"
CDataOpen == "<![CDATA["
CDataClose == "]]>"

ShortRun == "Description 1"
LongRun == "Gemini Code Assist for IntelliJ: a new feature was released."
HeadRunA == "Feature"
HeadRunB == "Fixed"
\* a run of 49 characters
Run49 == "Fixed: the editor keeps the caret where it was on"

EntLt == <<"&", "l", "t", ";">>
EntGt == <<"&", "g", "t", ";">>
EntAmp == <<"&", "a", "m", "p", ";">>
EntQuot == <<"&", "q", "u", "o", "t", ";">>
EntApos039 == <<"&", "#", "0", "3", "9", ";">>
EntApos39 == <<"&", "#", "3", "9", ";">>

\* String.prototype.length of one lexeme
CharLen(tok) ==
    CASE tok = ShortRun -> 13
      [] tok = LongRun -> 60
      [] tok = Run49 -> 49
      [] tok = HeadRunA -> 7
      [] tok = HeadRunB -> 5
      [] tok = "No description available." -> 25
      [] tok \in {H3, "<ul>", "</p>"} -> 4
      [] tok \in {H3Close, "</ul>"} -> 5
      [] tok \in {"<p>", "...", CDataClose} -> 3
      [] tok = CDataOpen -> 9
      [] OTHER -> 1

RECURSIVE TextLen(_)
TextLen(text) == IF text = <<>> THEN 0 ELSE CharLen(Head(text)) + TextLen(Tail(text))

RECURSIVE ReplaceAll(_, _, _)
\* text.replace(/from/g, to): the occurrences of from, leftmost first and not
\* overlapping; what was put in is not searched again
ReplaceAll(text, from, to) ==
    IF Len(text) < Len(from) THEN text
    ELSE IF SubSeq(text, 1, Len(from)) = from
    THEN to \o ReplaceAll(SubSeq(text, Len(from) + 1, Len(text)), from, to)
    ELSE <<Head(text)>> \o ReplaceAll(Tail(text), from, to)

\* actions.ts:29-38, the six replacements in the order of the code
decodeHtmlEntities(text) ==
    LET s1 == ReplaceAll(text, EntLt, <<"<">>)
        s2 == ReplaceAll(s1, EntGt, <<">">>)
        s3 == ReplaceAll(s2, EntAmp, <<"&">>)
        s4 == ReplaceAll(s3, EntQuot, <<"\"">>)
        s5 == ReplaceAll(s4, EntApos039, <<"'">>)
    IN  ReplaceAll(s5, EntApos39, <<"'">>)

\* the lexemes that hold a '>'
HasGt(tok) == tok \in Tags \cup {">", CDataClose}

RECURSIVE AfterGt(_)
\* what follows the first '>' of a text, nothing when there is none
AfterGt(text) ==
    IF text = <<>> THEN <<>>
    ELSE IF HasGt(Head(text)) THEN Tail(text)
    ELSE AfterGt(Tail(text))

RECURSIVE StripMarkup(_)
\* replace(/<[^>]*>?/gm, ''): every '<' goes with all that follows it up to
\* and including the next '>', or up to the end of the text
StripMarkup(text) ==
    IF text = <<>> THEN <<>>
    ELSE IF Head(text) \in Tags THEN StripMarkup(Tail(text))
    ELSE IF Head(text) \in {"<", CDataOpen} THEN StripMarkup(AfterGt(Tail(text)))
    ELSE <<Head(text)>> \o StripMarkup(Tail(text))

RECURSIVE TrimStart(_)
TrimStart(text) ==
    IF text # <<>> /\ Head(text) = " " THEN TrimStart(Tail(text)) ELSE text
RECURSIVE TrimEnd(_)
TrimEnd(text) ==
    IF text # <<>> /\ text[Len(text)] = " "
    THEN TrimEnd(SubSeq(text, 1, Len(text) - 1)) ELSE text
\* String.prototype.trim
Trim(text) == TrimEnd(TrimStart(text))

\* flow.ts:76, htmlContent.replace(/<[^>]*>?/gm, '').trim()
StripTags(text) == Trim(StripMarkup(text))

RECURSIVE TakeChars(_, _)
\* substring(0, n), for a cut that falls between two lexemes
TakeChars(text, n) ==
    IF text = <<>> \/ CharLen(Head(text)) > n THEN <<>>
    ELSE <<Head(text)>> \o TakeChars(Tail(text), n - CharLen(Head(text)))

\* index of the first occurrence of tok in text, 0 when absent
RECURSIVE IndexOf(_, _)
IndexOf(text, tok) ==
    IF text = <<>> THEN 0
    ELSE IF Head(text) = tok THEN 1
    ELSE LET r == IndexOf(Tail(text), tok) IN IF r = 0 THEN 0 ELSE r + 1

RECURSIVE SplitOn(_, _)
\* String.prototype.split(sep): the pieces between the occurrences of sep
SplitOn(text, sep) ==
    LET i == IndexOf(text, sep)
    IN  IF i = 0 THEN <<text>>
        ELSE <<SubSeq(text, 1, i - 1)>> \o SplitOn(SubSeq(text, i + 1, Len(text)), sep)

(********************************* links ***********************************)
\* the parser's placeholder link '#'
Placeholder == <<35>>

RECURSIVE Digits(_)
\* the decimal digits of n >= 0, as bytes
Digits(n) == IF n < 10 THEN <<48 + n>> ELSE Digits(n \div 10) \o <<48 + (n % 10)>>

\* a faulty variant of SubLink: the sections are numbered from 1
SubLinkFromOne(link, index) == link \o <<45>> \o Digits(index + 1)

\* `${link}-${index}`
SubLink(link, index) == link \o <<45>> \o Digits(index)

B64Alphabet ==
    << "A","B","C","D","E","F","G","H","I","J","K","L","M","N","O","P",
       "Q","R","S","T","U","V","W","X","Y","Z","a","b","c","d","e","f",
       "g","h","i","j","k","l","m","n","o","p","q","r","s","t","u","v",
       "w","x","y","z","0","1","2","3","4","5","6","7","8","9","+","/" >>
B64(n) == B64Alphabet[n + 1]

RECURSIVE Base64(_)
\* Buffer.from(link).toString('base64')
Base64(bytes) ==
    IF bytes = <<>> THEN <<>>
    ELSE IF Len(bytes) = 1 THEN
        << B64(bytes[1] \div 4), B64((bytes[1] % 4) * 16), "=", "=" >>
    ELSE IF Len(bytes) = 2 THEN
        << B64(bytes[1] \div 4),
           B64((bytes[1] % 4) * 16 + bytes[2] \div 16),
           B64((bytes[2] % 16) * 4), "=" >>
    ELSE
        << B64(bytes[1] \div 4),
           B64((bytes[1] % 4) * 16 + bytes[2] \div 16),
           B64((bytes[2] % 16) * 4 + bytes[3] \div 64),
           B64(bytes[3] % 64) >> \o Base64(SubSeq(bytes, 4, Len(bytes)))

\* a faulty variant of DocId: '/' is replaced by '-' as '+' is
DocIdOneSafeChar(link) ==
    ReplaceAll(ReplaceAll(ReplaceAll(Base64(link), <<"+">>, <<"-">>), <<"/">>, <<"-">>),
               <<"=">>, <<>>)

\* actions.ts:299, the ContentID: URL-safe base64 of the link, padding removed
DocId(link) ==
    ReplaceAll(ReplaceAll(ReplaceAll(Base64(link), <<"+">>, <<"-">>), <<"/">>, <<"_">>),
               <<"=">>, <<>>)

(******************************* summarizer ********************************)
\* what the prompt of the flow can do: return an output, return none, throw
FullOutput ==
    [product |-> <<"Gemini">>, subcomponent |-> Some(<<"IntelliJ">>),
     title |-> <<"Gemini Code Assist for IntelliJ">>,
     pubDate |-> DaysAgo(2), summary |-> << <<"Feature: This is a new feature.">> >>]
SparseOutput ==
    [product |-> <<>>, subcomponent |-> None, title |-> <<>>,
     pubDate |-> NoDate, summary |-> <<>>]
\* an output whose date, read in the content, is that of an older release
DatedOutput ==
    [product |-> <<"Gemini">>, subcomponent |-> None,
     title |-> <<"Gemini Code Assist for IntelliJ">>,
     pubDate |-> DaysAgo(370), summary |-> << <<"Fixed: A bug was fixed.">> >>]
PromptOutcomes ==
    { [kind |-> "output", out |-> FullOutput],
      [kind |-> "output", out |-> DatedOutput],
      [kind |-> "output", out |-> SparseOutput],
      [kind |-> "null", out |-> SparseOutput],
      [kind |-> "throws", out |-> SparseOutput] }

\* flow.ts:78, the short-content test
IsShortContent(strippedText) == TextLen(strippedText) < 50

\* summarize-release-notes-flow.ts:75-111
summarizeReleaseNoteFlow(htmlContent, prompt) ==
    LET strippedText == StripTags(htmlContent)
        fallbackSummary ==
            IF TextLen(strippedText) > 250
            THEN TakeChars(strippedText, 250) \o <<"...">>
            ELSE strippedText
    IN  IF IsShortContent(strippedText) THEN
            [product |-> <<"Unknown">>, subcomponent |-> None,
             title |-> <<"Summary unavailable">>, pubDate |-> Today,
             summary |-> <<strippedText>>]
        ELSE IF prompt.kind = "output" THEN
            [product |-> IF prompt.out.product # <<>> THEN prompt.out.product
                         ELSE <<"Unknown">>,
             subcomponent |-> prompt.out.subcomponent,
             title |-> IF prompt.out.title # <<>> THEN prompt.out.title
                       ELSE <<"Title unavailable">>,
             pubDate |-> IF prompt.out.pubDate # NoDate THEN prompt.out.pubDate
                         ELSE Today,
             summary |-> IF Len(prompt.out.summary) > 0 THEN prompt.out.summary
                         ELSE <<strippedText>>]
        ELSE
            [product |-> <<"Unknown">>, subcomponent |-> None,
             title |-> <<"Summary unavailable">>, pubDate |-> Today,
             summary |-> <<fallbackSummary>>]

\* the settled promise of summarizeReleaseNote (flow.ts:27-29): the flow's
\* value, or a rejection of the call itself
Resolved(result) == [kind |-> "resolved", result |-> result]
Rejected == [kind |-> "rejected", result |-> summarizeReleaseNoteFlow(<<>>, [kind |-> "null"])]
SummarizeOutcomes(htmlContent) ==
    {Resolved(summarizeReleaseNoteFlow(htmlContent, p)) : p \in PromptOutcomes}
        \cup {Rejected}

(********************************* items ***********************************)
\* actions.ts:16-25 FeedItem, as the parser builds it (168-173)
NewItem(title, link, pubDate, description) ==
    [title |-> title, link |-> link, pubDate |-> pubDate,
     description |-> description,
     summary |-> None, product |-> None, subcomponent |-> None]

\* actions.ts:216, the summary of an item whose summarization failed
FallbackSummary == Some(<< <<"Error summarizing content.">> >>)

\* a faulty variant of Summarized: the parsed title and date are kept
SummarizedKeepsParsed(item, outcome) ==
    IF outcome.kind = "resolved" THEN
        [item EXCEPT !.summary = Some(outcome.result.summary),
                     !.product = Some(outcome.result.product),
                     !.subcomponent = outcome.result.subcomponent]
    ELSE [item EXCEPT !.summary = FallbackSummary]

\* actions.ts:205-217, one summarization task's effect on its item
Summarized(item, outcome) ==
    IF outcome.kind = "resolved" THEN
        [item EXCEPT !.summary = Some(outcome.result.summary),
                     !.product = Some(outcome.result.product),
                     !.subcomponent = outcome.result.subcomponent,
                     !.title = outcome.result.title,
                     !.pubDate = outcome.result.pubDate]
    ELSE [item EXCEPT !.summary = FallbackSummary]


(********************************* parser **********************************)
\* A fetched document, after the block regexes of actions.ts:115-119:
\*   hasFeed = xmlText.includes('<feed'), hasRss = xmlText.includes('<rss'),
\*   entries / rssItems = the <entry> / <item> blocks in document order.
\* A block holds what the field regexes of 132-147 capture: an optional title,
\* the link elements, an optional date, an optional description or content.
Block(title, links, pubDate, description) ==
    [title |-> title, links |-> links, pubDate |-> pubDate, description |-> description]
LinkEl(rel, href) == [rel |-> rel, href |-> href]

\* actions.ts:135-138: the leftmost link element the pattern matches, which is
\* the first one that carries an href (Atom) or the first element (RSS)
ExtractLink(isAtom, links) ==
    LET usable == SelectSeq(links, LAMBDA l : l.href # None)
    IN  IF usable = <<>> THEN Placeholder ELSE usable[1].href[1]

\* actions.ts:148-151
ExtractDescription(block) ==
    LET raw == IF block.description # None THEN Trim(block.description[1])
               ELSE <<"No description available.">>
    IN  IF raw # <<>> /\ Head(raw) = CDataOpen
        THEN Trim(SubSeq(raw, 2, Len(raw) - (IF raw[Len(raw)] = CDataClose THEN 1 ELSE 0)))
        ELSE raw

\* actions.ts:157-160, the title of one section
SubTitle(subItem, entryTitle) ==
    LET close == IndexOf(subItem, H3Close)
    IN  IF close # 0 THEN decodeHtmlEntities(Trim(SubSeq(subItem, 1, close - 1)))
        ELSE decodeHtmlEntities(entryTitle)

\* actions.ts:131-174, the items of one block
ProcessBlock(isAtom, block) ==
    LET entryTitle == IF block.title # None THEN Trim(block.title[1]) ELSE <<>>
        link == ExtractLink(isAtom, block.links)
        pubDate == IF block.pubDate # None THEN block.pubDate[1] ELSE DateAt(Now)
        description == ExtractDescription(block)
        subItems == Tail(SplitOn(description, H3))
    IN  IF H3 \in Range(description) THEN
            [index \in 1..Len(subItems) |->
                NewItem(SubTitle(subItems[index], entryTitle),
                        SubLink(link, index - 1),
                        pubDate,
                        decodeHtmlEntities(<<H3>> \o subItems[index]))]
        ELSE
            << NewItem(decodeHtmlEntities(entryTitle), link, pubDate,
                       decodeHtmlEntities(description)) >>

\* actions.ts:131, itemBlocks.flatMap
ProcessedItems(isAtom, blocks) ==
    Flatten([i \in 1..Len(blocks) |-> ProcessBlock(isAtom, blocks[i])])

\* actions.ts:179
IsValidItem(item) == item.title # <<>> /\ item.link # <<>> /\ item.link # Placeholder

\* actions.ts:184-192, isThisMonth(d) || isSameMonth(d, subMonths(now, 1))
IsDisplayable(item) ==
    /\ Parses(item.pubDate)
    /\ \/ MonthOf(item.pubDate.t) = MonthOf(Now)
       \/ MonthOf(item.pubDate.t) = MonthOf(SubOneMonth(Now))

DisplayableItems(isAtom, blocks) ==
    SelectSeq(SelectSeq(ProcessedItems(isAtom, blocks), IsValidItem), IsDisplayable)

(******************************* fetchRssFeed ******************************)
\* results { data?, error? }
Data(items) == [data |-> Some(items), error |-> None]
Error(message) == [data |-> None, error |-> Some(message)]

InvalidUrlError == <<"Please enter a valid URL.">>
NetworkError == <<"Network error or invalid domain. Please check the URL and your connection.">>
UnexpectedError == <<"An unexpected error occurred while processing the feed. It may not be a valid RSS or Atom format.">>
FormatError == <<"The content does not appear to be a valid RSS or Atom feed.">>
HttpError(status) == <<"Failed to fetch feed. Server responded with status: ", status>>


\* documents
Doc(hasFeed, hasRss, rssItems, entries) ==
    [hasFeed |-> hasFeed, hasRss |-> hasRss, rssItems |-> rssItems, entries |-> entries]

LinkA1 == <<97, 49>>
LinkB == <<98>>
\* an RSS feed: a release three days old with a short description, and an item
\* without a link
DocA ==
    Doc(FALSE, TRUE,
        << Block(Some(<<"Test Item 1">>), <<LinkEl("", Some(LinkA1))>>,
                 Some(DaysAgo(3)), Some(<<ShortRun>>)),
           Block(Some(<<"No link">>), <<>>, Some(DaysAgo(3)), Some(<<ShortRun>>)) >>,
        <<>>)
\* an Atom feed: one entry of last month holding a preamble and two sections
DocB ==
    Doc(TRUE, FALSE, <<>>,
        << Block(Some(<<"Release notes", " ">> \o EntAmp \o <<" ", "fixes">>),
                 << LinkEl("self", None), LinkEl("alternate", Some(LinkB)) >>,
                 Some(DaysAgo(20)),
                 Some(<< CDataOpen, "<p>", ShortRun, "</p>",
                         H3, HeadRunA, H3Close, "<p>", LongRun, "</p>",
                         H3, HeadRunB, H3Close, "<p>", ShortRun, "</p>",
                         CDataClose >>)) >>)
\* the text "not a valid rss feed"
DocNotFeed == Doc(FALSE, FALSE, <<>>, <<>>)
DocEmptyRss == Doc(FALSE, TRUE, <<>>, <<>>)
DocEmptyAtom == Doc(TRUE, FALSE, <<>>, <<>>)
\* an RSS feed: a long recent release, one of two months ago, one whose date
\* does not parse, one without a title
LinkC1 == <<99, 49>>
LinkC2 == <<99, 50>>
DocC ==
    Doc(FALSE, TRUE,
        << Block(Some(<<"Release", " ">> \o EntLt \o <<"1">> \o EntGt),
                 <<LinkEl("", Some(LinkC1))>>,
                 Some(DaysAgo(1)), Some(<<"<p>", LongRun, "</p>">>)),
           Block(Some(<<"Old release">>), <<LinkEl("", Some(LinkC2))>>,
                 Some(DaysAgo(60)), Some(<<ShortRun>>)),
           Block(Some(<<"Undated">>), <<LinkEl("", Some(LinkC2))>>,
                 Some(BadDate), Some(<<ShortRun>>)),
           Block(None, <<LinkEl("", Some(LinkC2))>>, None, None) >>,
        <<>>)
\* an Atom feed: a recent entry without a link element, holding one section
DocD ==
    Doc(TRUE, FALSE, <<>>,
        << Block(Some(<<"Unlinked entry">>), <<>>, Some(DaysAgo(1)),
                 Some(<< H3, HeadRunA, H3Close, "<p>", ShortRun, "</p>" >>)) >>)
\* an RSS feed whose text holds '<feed' (a <feedburner:info> element): its
\* <item> blocks are not looked for
DocFeedInRss ==
    Doc(TRUE, TRUE,
        << Block(Some(<<"Test Item 1">>), <<LinkEl("", Some(LinkA1))>>,
                 Some(DaysAgo(3)), Some(<<ShortRun>>)) >>,
        <<>>)
\* an Atom feed whose two entries link to the same page; the second is dated
\* five hours after now (a publisher's clock ahead of the reader's)
DocSamePage ==
    Doc(TRUE, FALSE, <<>>,
        << Block(Some(<<"Release 1">>), <<LinkEl("alternate", Some(LinkB))>>,
                 Some(DaysAgo(3)), Some(<<"<p>", HeadRunB, "</p>">>)),
           Block(Some(<<"Release 2">>), <<LinkEl("alternate", Some(LinkB))>>,
                 Some(DateAt(Now + 5)), Some(<<"<p>", ShortRun, "</p>">>)) >>)
Docs == {DocA, DocB, DocC, DocD, DocNotFeed, DocEmptyRss, DocEmptyAtom, DocFeedInRss,
         DocSamePage}

\* what the network does to one fetch() and what the summarizer does to the
\* items of that feed (policy: the prompt outcome, or "rejects")
World(net, ok, status, doc, policy) ==
    [net |-> net, ok |-> ok, status |-> status, doc |-> doc, policy |-> policy]
Serves(doc, policy) == World("response", TRUE, "200", doc, policy)
PolicyOutcome(policy, htmlContent) ==
    IF policy.kind = "rejects" THEN Rejected
    ELSE Resolved(summarizeReleaseNoteFlow(htmlContent, policy))
PromptFull == [kind |-> "output", out |-> FullOutput]
Rejects == [kind |-> "rejects", out |-> SparseOutput]
\* what can happen behind one summarizeReleaseNote call: one of the prompt's
\* outcomes inside the flow, or a rejection of the call itself
SummarizerBehaviours == PromptOutcomes \cup {Rejects}

UrlA == "http://a.example/rss"
UrlB == "http://b.example/atom"
UrlBad == "not a url"
Urls == {UrlA, UrlB, UrlBad}
\* actions.ts:27,91, z.string().url()
UrlValid(url) == url \in {UrlA, UrlB}

\* a faulty variant of IsFormatError: the dialect is not looked at
IsFormatErrorRssOnly(doc) == ~doc.hasRss

\* actions.ts:122, no blocks and no root marker of the detected dialect
IsFormatError(doc) == ~doc.hasFeed /\ ~doc.hasRss

\* actions.ts:117-119
ItemBlocks(doc) == IF doc.hasFeed THEN doc.entries ELSE doc.rssItems

\* actions.ts:89-233 as a function of the url and of what the world does
fetchRssFeedResult(url, world) ==
    IF ~UrlValid(url) THEN Error(InvalidUrlError)
    ELSE IF world.net = "fetch failed" THEN Error(NetworkError)
    ELSE IF world.net = "threw" THEN Error(UnexpectedError)
    ELSE IF ~world.ok THEN Error(HttpError(world.status))
    ELSE IF ItemBlocks(world.doc) = <<>> THEN
        IF IsFormatError(world.doc) THEN Error(FormatError)
        ELSE Data(<<>>)
    ELSE
        LET displayableItems == DisplayableItems(world.doc.hasFeed, ItemBlocks(world.doc))
        IN  Data([i \in 1..Len(displayableItems) |->
                    Summarized(displayableItems[i],
                               PolicyOutcome(world.policy, displayableItems[i].description))])

\* the worlds a source of the page can meet
Worlds(url) ==
    CASE url = UrlA ->
            { World("response", FALSE, "404", DocNotFeed, PromptFull),
              Serves(DocA, PromptFull) }
      [] url = UrlB ->
            { World("fetch failed", FALSE, "", DocNotFeed, PromptFull),
              Serves(DocB, PromptFull), Serves(DocB, Rejects),
              Serves(DocSamePage, Rejects) }
      [] OTHER -> { Serves(DocEmptyRss, PromptFull) }

\* what fetchRssFeed(url) can resolve to
SourceResults == [u \in Urls |-> {fetchRssFeedResult(u, w) : w \in Worlds(u)}]

(***************************** aggregation *********************************)
\* page.tsx:233, `Feed "${feedUrls[index]}": ${result.error}`
ErrorLine(url, message) == [feed |-> Some(url), text |-> message]
\* page.tsx:213, a store error shown as it is
BareLine(message) == [feed |-> None, text |-> message]

RECURSIVE AggregateStopsAtError(_, _)
\* a faulty variant of Aggregate: the loop ends at the first failing source
AggregateStopsAtError(rs, urls) ==
    IF rs = <<>> THEN [allItems |-> <<>>, allErrors |-> <<>>]
    ELSE IF Head(rs).error # None
    THEN [allItems |-> <<>>, allErrors |-> <<ErrorLine(Head(urls), Head(rs).error[1])>>]
    ELSE LET rest == AggregateStopsAtError(Tail(rs), Tail(urls))
         IN  [allItems |-> Head(rs).data[1] \o rest.allItems, allErrors |-> rest.allErrors]

RECURSIVE Aggregate(_, _)
\* page.tsx:225-235, results.forEach
Aggregate(rs, urls) ==
    IF rs = <<>> THEN [allItems |-> <<>>, allErrors |-> <<>>]
    ELSE LET rest == Aggregate(Tail(rs), Tail(urls))
             r == Head(rs)
         IN  [allItems |-> (IF r.data # None THEN r.data[1] ELSE <<>>) \o rest.allItems,
              allErrors |-> (IF r.error # None
                             THEN <<ErrorLine(Head(urls), r.error[1])>> ELSE <<>>)
                            \o rest.allErrors]

NoAggregate == [allItems |-> <<>>, allErrors |-> <<>>]

\* page.tsx:245-255
IsStorable(item) ==
    /\ item.pubDate # NoDate
    /\ Parses(item.pubDate)
    /\ differenceInDays(Now, item.pubDate.t) >= 0
    /\ differenceInDays(Now, item.pubDate.t) <= 14
ItemsToStore(allItems) == SelectSeq(allItems, IsStorable)

(********************************* store ***********************************)
\* the order of document ids in a collection read: by UTF-8 bytes
CharOrder ==
    << "-","0","1","2","3","4","5","6","7","8","9",
       "A","B","C","D","E","F","G","H","I","J","K","L","M","N","O","P",
       "Q","R","S","T","U","V","W","X","Y","Z","_",
       "a","b","c","d","e","f","g","h","i","j","k","l","m","n","o","p",
       "q","r","s","t","u","v","w","x","y","z" >>
Rank(c) == CHOOSE i \in 1..Len(CharOrder) : CharOrder[i] = c
RECURSIVE IdLess(_, _)
IdLess(a, b) ==
    IF a = <<>> THEN b # <<>>
    ELSE IF b = <<>> THEN FALSE
    ELSE IF Head(a) = Head(b) THEN IdLess(Tail(a), Tail(b))
    ELSE Rank(Head(a)) < Rank(Head(b))
RECURSIVE SortIds(_)
SortIds(ids) ==
    IF ids = {} THEN <<>>
    ELSE LET m == CHOOSE x \in ids : \A y \in ids \ {x} : IdLess(x, y)
         IN  <<m>> \o SortIds(ids \ {m})

\* actions.ts:274-279, snapshot.docs.map(doc => doc.data())
StoredItems(docs) ==
    LET ids == SortIds(DOMAIN docs) IN [i \in 1..Len(ids) |-> docs[ids[i]]]

StoreReadError == <<"Could not retrieve stored feed items.">>

\* a faulty variant of AfterDelete: the delete batch is committed empty
AfterDeleteKeepsAll(docs, old) == docs

\* actions.ts:293-295, the collection after the delete batch commits
AfterDelete(docs, old) == [id \in DOMAIN docs \ old |-> docs[id]]

\* actions.ts:297-303, the records of the add batch: a later set() of the same
\* document replaces an earlier one
AddBatch(its) ==
    [id \in {DocId(its[k].link) : k \in 1..Len(its)} |->
        its[CHOOSE k \in 1..Len(its) :
                /\ DocId(its[k].link) = id
                /\ \A j \in (k + 1)..Len(its) : DocId(its[j].link) # id]]

\* the collection after the add batch commits
AfterAdd(docs, its) ==
    LET batch == AddBatch(its)
    IN  [id \in DOMAIN docs \cup DOMAIN batch |->
            IF id \in DOMAIN batch THEN batch[id] ELSE docs[id]]

EmptyStore == <<>>

\* a snapshot left by an earlier session
OldItem ==
    [NewItem(<<"Earlier release">>, <<111>>, DaysAgo(5), <<ShortRun>>)
        EXCEPT !.summary = Some(<< <<ShortRun>> >>)]
OldSnapshot == AfterAdd(EmptyStore, <<OldItem>>)

(***************************** classification ******************************)
\* page.tsx:280-295, the weekly buckets
InThisWeek(item) ==
    /\ item.pubDate # NoDate /\ Parses(item.pubDate)
    /\ differenceInDays(Now, item.pubDate.t) >= 0
    /\ differenceInDays(Now, item.pubDate.t) <= 7
InLastWeek(item) ==
    /\ item.pubDate # NoDate /\ Parses(item.pubDate)
    /\ ~InThisWeek(item)
    /\ differenceInDays(Now, item.pubDate.t) > 7
    /\ differenceInDays(Now, item.pubDate.t) <= 14

RECURSIVE SortByDate(_)
\* page.tsx:298-300, Array.prototype.sort (stable), newest first
SortByDate(its) ==
    IF its = <<>> THEN <<>>
    ELSE LET rest == SortByDate(Tail(its))
             newer == SelectSeq(rest, LAMBDA x : x.pubDate.t >= Head(its).pubDate.t)
             older == SelectSeq(rest, LAMBDA x : x.pubDate.t < Head(its).pubDate.t)
         IN  newer \o <<Head(its)>> \o older
thisWeekItems(its) == SortByDate(SelectSeq(its, InThisWeek))
lastWeekItems(its) == SortByDate(SelectSeq(its, InLastWeek))

(******************************** state ************************************)
VARIABLES
    \* the persisted documents: feeds/default and the feedItems collection
    sourceList, store,
    \* Home (page.tsx:189-192) and the running loadFeeds (197-260)
    items, isLoading, error, hasUrls, pc, fromCache, feedUrls, results,
    \* history of the running loadFeeds: source fetches, summarizer calls,
    \* storeFeedItems calls, what the snapshot read gave, whether the write
    \* failed, the aggregate, and the collection when the request started
    reqFetches, reqSummaries, reqStoreCalls, reqRead, reqWriteFailed, reqAll, storeAtStart,
    \* the running storeFeedItems (actions.ts:286-310)
    sPc, sItems, sOld, sResult, sBefore,
    \* another session's getStoredFeedItems during a write cycle: what it saw,
    \* and the collection before and after that cycle
    rSeen, rOld, rNew,
    \* the running fetchRssFeed (actions.ts:89-233)
    fPc, fUrl, fItems, fPending, fEntered, fResult,
    \* history of that call: the document served, what the summarizer did
    \* for each item
    fDoc, fOutcomes,
    \* the sources of the running loadFeeds whose fetch never settles
    hung,
    \* the running summarizeReleaseNoteFlow (flow.ts:69-112): its input, the
    \* calls of the prompt so far, what the prompt did, and the value returned
    zPc, zHtml, zCalls, zPrompt, zResult,
    \* the parser applied to one block (actions.ts:131-174): the dialect, the
    \* block, and the items it yields
    pPc, pIsAtom, pBlock, pItems,
    \* the weekly classifier of Home (page.tsx:275-303): the items given and
    \* the two buckets
    wPc, wItems, wThisWeek, wLastWeek,
    \* decodeHtmlEntities (actions.ts:29-38) applied to a text, and again to
    \* what it returned
    dPc, dText, dOnce, dTwice,
    \* AdminPage (part_003:17-134): the list displayed, the sources/default
    \* document, whether the list is loaded, isSaving and the list being
    \* saved, the last toast; history: the list last loaded or saved with
    \* success, the last action and the URL it was given, whether a save failed
    aSources, aDoc, aLoaded, aIsSaving, aPending, aToast, aKnown, aAct, aUrl, aFailed

persisted == <<sourceList, store>>
pageVars == <<items, isLoading, error, hasUrls, pc, fromCache, feedUrls, results>>
reqVars == <<reqFetches, reqSummaries, reqStoreCalls, reqRead, reqWriteFailed, reqAll, storeAtStart>>
storeVars == <<sPc, sItems, sOld, sResult, sBefore>>
readerVars == <<rSeen, rOld, rNew>>
fetchVars == <<fPc, fUrl, fItems, fPending, fEntered, fResult, fDoc, fOutcomes>>
flowVars == <<zPc, zHtml, zCalls, zPrompt, zResult>>
parseVars == <<pPc, pIsAtom, pBlock, pItems>>
weekVars == <<wPc, wItems, wThisWeek, wLastWeek>>
decodeVars == <<dPc, dText, dOnce, dTwice>>
adminVars == <<aSources, aDoc, aLoaded, aIsSaving, aPending, aToast, aKnown, aAct, aUrl, aFailed>>
calcVars == <<flowVars, parseVars, weekVars, decodeVars, adminVars>>
vars == <<persisted, pageVars, reqVars, storeVars, readerVars, fetchVars, hung, calcVars>>

RECURSIVE SeqsUpTo(_, _)
\* the sequences over S of length at most n
SeqsUpTo(S, n) ==
    IF n = 0 THEN {<<>>}
    ELSE LET shorter == SeqsUpTo(S, n - 1)
         IN  shorter \cup {Append(q, x) : q \in shorter, x \in S}

SourceLists == SeqsUpTo(Urls, MaxSources)

InitPage ==
    /\ items = <<>> /\ isLoading = TRUE /\ error = None /\ hasUrls = FALSE
    /\ pc = "idle" /\ fromCache = TRUE /\ feedUrls = <<>> /\ results = <<>>
    /\ reqFetches = 0 /\ reqSummaries = 0 /\ reqStoreCalls = 0
    /\ reqRead = "none" /\ reqWriteFailed = FALSE /\ reqAll = NoAggregate
    /\ storeAtStart = store
InitStore ==
    /\ sPc = "idle" /\ sItems = <<>> /\ sOld = {} /\ sResult = "none"
    /\ sBefore = store
InitReader == rSeen = None /\ rOld = EmptyStore /\ rNew = EmptyStore
InitFetch ==
    /\ fPc = "idle" /\ fUrl = UrlA /\ fItems = <<>> /\ fPending = {}
    /\ fEntered = None /\ fResult = Data(<<>>)
    /\ fDoc = None /\ fOutcomes = <<>>
InitFlow ==
    /\ zPc = "idle" /\ zHtml = <<>> /\ zCalls = 0 /\ zPrompt = None /\ zResult = None
InitParse == pPc = "idle" /\ pIsAtom = FALSE /\ pBlock = None /\ pItems = <<>>
InitWeek == wPc = "idle" /\ wItems = <<>> /\ wThisWeek = <<>> /\ wLastWeek = <<>>
InitDecode == dPc = "idle" /\ dText = <<>> /\ dOnce = <<>> /\ dTwice = <<>>
InitAdmin ==
    /\ aSources = <<>> /\ aDoc = <<>> /\ aLoaded = FALSE /\ aIsSaving = FALSE
    /\ aPending = None /\ aToast = "none" /\ aKnown = <<>> /\ aAct = "none"
    /\ aUrl = "" /\ aFailed = FALSE
InitCalc == hung = {} /\ InitFlow /\ InitParse /\ InitWeek /\ InitDecode /\ InitAdmin

Init ==
    /\ sourceList \in SourceLists
    /\ store \in {EmptyStore, OldSnapshot}
    /\ InitPage /\ InitStore /\ InitReader /\ InitFetch /\ InitCalc

(***************************** storeFeedItems *******************************)
\* actions.ts:306-309, the catch of the write cycle
StoreThrows ==
    /\ sResult' = "failure" /\ sPc' = "done"
    /\ UNCHANGED <<store, sItems, sOld, sBefore>>

\* actions.ts:292, await getDocs(itemsCollection)
StoreGetDocs ==
    /\ sPc = "getDocs"
    /\ \/ /\ sOld' = DOMAIN store
          /\ sPc' = "deleteCommit"
          /\ UNCHANGED <<store, sItems, sResult, sBefore>>
       \/ StoreThrows
    /\ UNCHANGED <<sourceList, pageVars, reqVars, readerVars, fetchVars>>
    /\ UNCHANGED <<hung, calcVars>>

\* actions.ts:293-295, await deleteBatch.commit()
StoreDeleteCommit ==
    /\ sPc = "deleteCommit"
    /\ \/ /\ store' = AfterDelete(store, sOld)
          /\ sPc' = "addCommit"
          /\ UNCHANGED <<sItems, sOld, sResult, sBefore>>
       \/ StoreThrows
    /\ UNCHANGED <<sourceList, pageVars, reqVars, readerVars, fetchVars>>
    /\ UNCHANGED <<hung, calcVars>>

\* actions.ts:297-305, await addBatch.commit(); return { success: true }
StoreAddCommit ==
    /\ sPc = "addCommit"
    /\ \/ /\ store' = AfterAdd(store, sItems)
          /\ sResult' = "success" /\ sPc' = "done"
          /\ UNCHANGED <<sItems, sOld, sBefore>>
       \/ StoreThrows
    /\ UNCHANGED <<sourceList, pageVars, reqVars, readerVars, fetchVars>>
    /\ UNCHANGED <<hung, calcVars>>

(******************************** loadFeeds ********************************)
Pending(n) == [i \in 1..n |-> None]
AllSettled == \A i \in 1..Len(results) : results[i] # None
Settled == [i \in 1..Len(results) |-> results[i][1]]

\* page.tsx:197-201; Refresh (329) is disabled while isLoading, the effect
\* (268-272) calls loadFeeds(true)
LoadFeedsStart ==
    /\ pc \in {"idle", "done"} /\ sPc = "idle"
    /\ \E fc \in BOOLEAN :
          /\ (fc = FALSE => ~isLoading)
          /\ fromCache' = fc
    /\ isLoading' = TRUE /\ error' = None /\ pc' = "getUrls"
    /\ feedUrls' = <<>> /\ results' = <<>>
    /\ reqFetches' = 0 /\ reqSummaries' = 0 /\ reqStoreCalls' = 0
    /\ reqRead' = "none" /\ reqWriteFailed' = FALSE /\ reqAll' = NoAggregate
    /\ storeAtStart' = store
    /\ UNCHANGED <<persisted, items, hasUrls, storeVars, readerVars, fetchVars>>
    /\ hung' = {}
    /\ UNCHANGED calcVars

\* page.tsx:201-208 with getFeedUrls (actions.ts:430-450), which gives the
\* stored list, or [] when the document read fails
LoadFeedsGetUrls ==
    /\ pc = "getUrls"
    /\ \E urls \in {sourceList, <<>>} :
          /\ feedUrls' = urls
          /\ hasUrls' = (Len(urls) > 0)
          /\ IF Len(urls) = 0 THEN
                /\ items' = <<>> /\ isLoading' = FALSE /\ pc' = "done"
                /\ UNCHANGED <<results, reqFetches>>
             ELSE IF fromCache THEN
                /\ pc' = "readStore"
                /\ UNCHANGED <<items, isLoading, results, reqFetches>>
             ELSE
                /\ pc' = "fetch" /\ results' = Pending(Len(urls))
                /\ reqFetches' = Len(urls)
                /\ UNCHANGED <<items, isLoading>>
    /\ UNCHANGED <<persisted, error, fromCache, reqSummaries, reqStoreCalls, reqRead,
                   reqWriteFailed, reqAll, storeAtStart, storeVars, readerVars, fetchVars>>
    /\ UNCHANGED <<hung, calcVars>>

\* a faulty variant of LoadFeedsReadStore: the return after a cache hit is missing
LoadFeedsReadStoreGoesOn ==
    /\ pc = "readStore"
    /\ \/ /\ error' = Some(<<BareLine(StoreReadError)>>)
          /\ reqRead' = "failed"
          /\ UNCHANGED items
       \/ /\ Len(StoredItems(store)) > 0
          /\ items' = StoredItems(store)
          /\ reqRead' = "hit"
          /\ UNCHANGED error
       \/ /\ Len(StoredItems(store)) = 0
          /\ reqRead' = "empty"
          /\ UNCHANGED <<items, error>>
    /\ pc' = "fetch" /\ results' = Pending(Len(feedUrls))
    /\ reqFetches' = Len(feedUrls)
    /\ UNCHANGED <<persisted, isLoading, hasUrls, fromCache, feedUrls, reqSummaries,
                   reqStoreCalls, reqWriteFailed, reqAll, storeAtStart, storeVars,
                   readerVars, fetchVars>>
    /\ UNCHANGED <<hung, calcVars>>

\* a faulty variant of LoadFeedsReadStore: a failed read ends the request
LoadFeedsReadStoreStopsOnError ==
    /\ pc = "readStore"
    /\ \/ /\ error' = Some(<<BareLine(StoreReadError)>>)
          /\ reqRead' = "failed"
          /\ isLoading' = FALSE /\ pc' = "done"
          /\ UNCHANGED <<items, results, reqFetches>>
       \/ /\ Len(StoredItems(store)) > 0
          /\ items' = StoredItems(store)
          /\ isLoading' = FALSE /\ pc' = "done" /\ reqRead' = "hit"
          /\ UNCHANGED <<error, results, reqFetches>>
       \/ /\ Len(StoredItems(store)) = 0
          /\ reqRead' = "empty"
          /\ pc' = "fetch" /\ results' = Pending(Len(feedUrls))
          /\ reqFetches' = Len(feedUrls)
          /\ UNCHANGED <<items, isLoading, error>>
    /\ UNCHANGED <<persisted, hasUrls, fromCache, feedUrls, reqSummaries, reqStoreCalls,
                   reqWriteFailed, reqAll, storeAtStart, storeVars, readerVars, fetchVars>>
    /\ UNCHANGED <<hung, calcVars>>

\* page.tsx:210-223 with getStoredFeedItems (actions.ts:268-284)
LoadFeedsReadStore ==
    /\ pc = "readStore"
    /\ \/ /\ error' = Some(<<BareLine(StoreReadError)>>)
          /\ reqRead' = "failed"
          /\ pc' = "fetch" /\ results' = Pending(Len(feedUrls))
          /\ reqFetches' = Len(feedUrls)
          /\ UNCHANGED <<items, isLoading>>
       \/ /\ Len(StoredItems(store)) > 0
          /\ items' = StoredItems(store)
          /\ isLoading' = FALSE /\ pc' = "done" /\ reqRead' = "hit"
          /\ UNCHANGED <<error, results, reqFetches>>
       \/ /\ Len(StoredItems(store)) = 0
          /\ reqRead' = "empty"
          /\ pc' = "fetch" /\ results' = Pending(Len(feedUrls))
          /\ reqFetches' = Len(feedUrls)
          /\ UNCHANGED <<items, isLoading, error>>
    /\ UNCHANGED <<persisted, hasUrls, fromCache, feedUrls, reqSummaries, reqStoreCalls,
                   reqWriteFailed, reqAll, storeAtStart, storeVars, readerVars, fetchVars>>
    /\ UNCHANGED <<hung, calcVars>>

\* page.tsx:223, one fetchRssFeed(url) of the Promise.all settles
LoadFeedsSourceSettles ==
    /\ pc = "fetch"
    /\ \E i \in 1..Len(feedUrls) :
          /\ results[i] = None
          /\ i \notin hung
          /\ \E r \in SourceResults[feedUrls[i]] :
                /\ results' = [results EXCEPT ![i] = Some(r)]
                /\ reqSummaries' = reqSummaries
                                   + (IF r.data # None THEN Len(r.data[1]) ELSE 0)
    /\ UNCHANGED <<persisted, items, isLoading, error, hasUrls, pc, fromCache, feedUrls,
                   reqFetches, reqStoreCalls, reqRead, reqWriteFailed, reqAll, storeAtStart,
                   storeVars, readerVars, fetchVars>>
    /\ UNCHANGED <<hung, calcVars>>

\* page.tsx:237-239
ErrorAfterRefresh(previous, allErrors) ==
    IF Len(allErrors) > 0 THEN Some(allErrors) ELSE previous

\* page.tsx:225-257: aggregate, setError, setItems, filter, call storeFeedItems
LoadFeedsAggregate ==
    /\ pc = "fetch" /\ AllSettled
    /\ LET agg == Aggregate(Settled, feedUrls)
       IN  /\ error' = ErrorAfterRefresh(error, agg.allErrors)
           /\ items' = agg.allItems
           /\ reqAll' = agg
           /\ sItems' = ItemsToStore(agg.allItems)
    /\ sPc' = "getDocs" /\ sResult' = "none" /\ sOld' = {} /\ sBefore' = store
    /\ reqStoreCalls' = reqStoreCalls + 1
    /\ pc' = "store"
    /\ UNCHANGED <<persisted, isLoading, hasUrls, fromCache, feedUrls, results,
                   reqFetches, reqSummaries, reqRead, reqWriteFailed, storeAtStart,
                   readerVars, fetchVars>>
    /\ UNCHANGED <<hung, calcVars>>

\* a faulty variant of LoadFeedsStoreReturns: a failed write clears the item state
LoadFeedsStoreReturnsDiscards ==
    /\ pc = "store" /\ sPc = "done"
    /\ isLoading' = FALSE /\ pc' = "done"
    /\ items' = IF sResult = "failure" THEN <<>> ELSE items
    /\ reqWriteFailed' = (sResult = "failure")
    /\ sPc' = "idle"
    /\ UNCHANGED <<persisted, error, hasUrls, fromCache, feedUrls, results,
                   reqFetches, reqSummaries, reqStoreCalls, reqRead, reqAll, storeAtStart,
                   sItems, sOld, sResult, sBefore, readerVars, fetchVars>>
    /\ UNCHANGED <<hung, calcVars>>

\* a faulty variant of LoadFeedsStoreReturns: the request goes on only when
\* the write succeeded
LoadFeedsStoreReturnsOnSuccess ==
    /\ pc = "store" /\ sPc = "done" /\ sResult = "success"
    /\ isLoading' = FALSE /\ pc' = "done"
    /\ reqWriteFailed' = (sResult = "failure")
    /\ sPc' = "idle"
    /\ UNCHANGED <<persisted, items, error, hasUrls, fromCache, feedUrls, results,
                   reqFetches, reqSummaries, reqStoreCalls, reqRead, reqAll, storeAtStart,
                   sItems, sOld, sResult, sBefore, readerVars, fetchVars>>
    /\ UNCHANGED <<hung, calcVars>>

\* page.tsx:257-259, storeFeedItems has settled; its result is not read
LoadFeedsStoreReturns ==
    /\ pc = "store" /\ sPc = "done"
    /\ isLoading' = FALSE /\ pc' = "done"
    /\ reqWriteFailed' = (sResult = "failure")
    /\ sPc' = "idle"
    /\ UNCHANGED <<persisted, items, error, hasUrls, fromCache, feedUrls, results,
                   reqFetches, reqSummaries, reqStoreCalls, reqRead, reqAll, storeAtStart,
                   sItems, sOld, sResult, sBefore, readerVars, fetchVars>>
    /\ UNCHANGED <<hung, calcVars>>

Next ==
    \/ LoadFeedsStart
    \/ LoadFeedsGetUrls
    \/ LoadFeedsReadStore
    \/ LoadFeedsSourceSettles
    \/ LoadFeedsAggregate
    \/ StoreGetDocs
    \/ StoreDeleteCommit
    \/ StoreAddCommit
    \/ LoadFeedsStoreReturns

\* one page session over the persisted documents
Spec == Init /\ [][Next]_vars

(********************************* render **********************************)
\* page.tsx:356-362, the alert
AlertRendered == error # None
\* page.tsx:364, the block that holds the item sections
SectionsRendered == ~isLoading /\ error = None
\* page.tsx:366-382, the items of the "This Week" and "Last Week" tables
ShownItems ==
    IF SectionsRendered THEN thisWeekItems(items) \o lastWeekItems(items) ELSE <<>>

(***************************** the page session ****************************)
\* the request has run the aggregation of page.tsx:225-235
Aggregated == pc \in {"store", "done"} /\ reqStoreCalls = 1
\* the items source i returned, none for a failing source
ItemsOf(i) == IF Settled[i].data # None THEN Settled[i].data[1] ELSE <<>>
Failing == {i \in 1..Len(results) : Settled[i].error # None}
\* the k-th failing source, in source-list order
KthFailing(k) ==
    CHOOSE i \in Failing : Cardinality({j \in Failing : j < i}) = k - 1

\* C1: whatever the sources and their outcomes, the aggregate item list is the
\* concatenation, in source-list order, of the items of the sources that
\* returned data, and the error list holds one message per failing source, in
\* source-list order, each tagged with the URL of that source.
C1_AggregateIsolatesFailures ==
    Aggregated =>
        /\ reqAll.allItems = Flatten([i \in 1..Len(results) |-> ItemsOf(i)])
        /\ items = reqAll.allItems
        /\ Len(reqAll.allErrors) = Cardinality(Failing)
        /\ \A k \in 1..Len(reqAll.allErrors) :
              /\ reqAll.allErrors[k].feed = Some(feedUrls[KthFailing(k)])
              /\ reqAll.allErrors[k].text = Settled[KthFailing(k)].error[1]

\* the first of two sources failed and the second returned items
C1_Witness ==
    /\ Aggregated /\ pc = "done" /\ Len(feedUrls) = 2
    /\ Settled[1].error # None
    /\ Len(ItemsOf(2)) > 0
    /\ Len(reqAll.allErrors) = 1 /\ reqAll.allItems = ItemsOf(2)

\* C2: after a refresh in which one source returned items and another failed,
\* the page shows the error report and the item sections with the items of the
\* successful sources that fall into the two weekly tables.
C2_PartialResultsShown ==
    ( /\ pc = "done" /\ reqStoreCalls = 1
      /\ \E i \in 1..Len(results) : Len(ItemsOf(i)) > 0
      /\ Failing # {} )
    => /\ AlertRendered
       /\ \A i \in 1..Len(results) : \A k \in 1..Len(ItemsOf(i)) :
             (InThisWeek(ItemsOf(i)[k]) \/ InLastWeek(ItemsOf(i)[k]))
                 => ItemsOf(i)[k] \in Range(ShownItems)

\* C3: a loadFeeds(true) whose snapshot read gives a non-empty list serves that
\* list and ends: it starts no source fetch, no summarization and no
\* storeFeedItems call, and the collection is what it was when the request began.
C3_CacheHitStops ==
    reqRead = "hit" =>
        /\ fromCache /\ Len(feedUrls) > 0
        /\ pc = "done" /\ ~isLoading
        /\ items = StoredItems(storeAtStart) /\ Len(items) > 0
        /\ reqFetches = 0 /\ results = <<>>
        /\ reqSummaries = 0
        /\ reqStoreCalls = 0 /\ sPc = "idle"
        /\ store = storeAtStart

C3_Witness ==
    /\ reqRead = "hit" /\ pc = "done" /\ Len(feedUrls) > 0
    /\ items = StoredItems(OldSnapshot) /\ SectionsRendered

\* the request fetched every source and then called storeFeedItems
PipelineRan ==
    /\ reqFetches = Len(feedUrls) /\ Len(results) = Len(feedUrls) /\ AllSettled
    /\ reqStoreCalls = 1

\* C4: with a non-empty source list, a finished loadFeeds has fetched every
\* source and then called the snapshot write exactly when the refresh was
\* explicit, the snapshot read gave no items, or the snapshot read failed; the
\* write starts only after every source has settled, and no fetch starts in
\* any other case.
C4_PipelineRunsExactlyOnMissRefreshOrReadFailure ==
    /\ (pc = "done" /\ Len(feedUrls) > 0) =>
          (PipelineRan <=> (~fromCache \/ reqRead \in {"empty", "failed"}))
    /\ (pc = "store") => (AllSettled /\ Len(results) = Len(feedUrls) /\ Len(feedUrls) > 0)
    /\ (reqFetches > 0 \/ reqStoreCalls > 0) =>
          (~fromCache \/ reqRead \in {"empty", "failed"})

\* a request whose snapshot read failed went on to fetch and to write
C4_Witness ==
    /\ pc = "done" /\ fromCache /\ reqRead = "failed" /\ PipelineRan
    /\ sResult = "success"

\* C8: when a finished loadFeeds met a failed snapshot read or a failed
\* snapshot write, the error state holds a line for the store failure.
C8_StoreFailureReported ==
    (pc = "done" /\ (reqRead = "failed" \/ reqWriteFailed))
        => /\ error # None
           /\ \E k \in 1..Len(error[1]) : error[1][k].feed = None

\* C9: after a loadFeeds whose snapshot write failed, the item state holds every
\* item the sources of that refresh returned, in source-list order.
C9_WriteFailureKeepsItems ==
    (pc = "done" /\ reqWriteFailed) =>
        items = Flatten([i \in 1..Len(results) |-> ItemsOf(i)])

C9_Witness ==
    /\ pc = "done" /\ reqWriteFailed /\ Len(items) > 0
    /\ \E i \in 1..Len(results) : Len(ItemsOf(i)) > 0

(******************** a writer and a concurrent reader *********************)
LinkGt == <<97, 98, 62>>
LinkQm == <<97, 98, 63>>
LinkAb == <<97, 98>>
Stored(title, link) ==
    [NewItem(<<title>>, link, DaysAgo(1), <<ShortRun>>)
        EXCEPT !.summary = Some(<< <<ShortRun>> >>)]
WriteItems ==
    { Stored("v1", LinkGt), Stored("v2", LinkGt), Stored("v1", LinkQm), Stored("v1", LinkAb) }
WriteLists == SeqsUpTo(WriteItems, MaxItems)

\* page.tsx:257 in some session: storeFeedItems(itemsToStore) is called
WriterCall ==
    /\ sPc = "idle" /\ pc = "idle"
    /\ \E its \in WriteLists : sItems' = its
    /\ sPc' = "getDocs" /\ sResult' = "none" /\ sOld' = {} /\ sBefore' = store
    /\ rSeen' = None /\ rOld' = EmptyStore /\ rNew' = EmptyStore
    /\ UNCHANGED <<persisted, pageVars, reqVars, fetchVars>>
    /\ UNCHANGED <<hung, calcVars>>

\* storeFeedItems has returned to that session
WriterReturns ==
    /\ sPc = "done" /\ pc = "idle"
    /\ sPc' = "idle"
    /\ UNCHANGED <<persisted, pageVars, reqVars, sItems, sOld, sResult, sBefore,
                   readerVars, fetchVars>>
    /\ UNCHANGED <<hung, calcVars>>

\* actions.ts:268-284 in another session, while the write cycle runs
ReaderRead ==
    /\ sPc \in {"getDocs", "deleteCommit", "addCommit"}
    /\ \/ rSeen' = Some(StoredItems(store))
       \/ rSeen' = None
    /\ rOld' = sBefore
    /\ rNew' = AfterAdd(EmptyStore, sItems)
    /\ UNCHANGED <<persisted, pageVars, reqVars, storeVars, fetchVars>>
    /\ UNCHANGED <<hung, calcVars>>

InitWriter ==
    /\ sourceList = <<>>
    /\ store \in {EmptyStore, OldSnapshot}
    /\ InitPage /\ InitStore /\ InitReader /\ InitFetch /\ InitCalc

NextStore ==
    \/ WriterCall
    \/ StoreGetDocs
    \/ StoreDeleteCommit
    \/ StoreAddCommit
    \/ WriterReturns
    \/ ReaderRead

\* write cycles of one writer, with a reader of another session
SpecStore == InitWriter /\ [][NextStore]_vars

\* the ContentIDs of the items handed to the running or last storeFeedItems
WrittenIds == {DocId(sItems[k].link) : k \in 1..Len(sItems)}
WrittenLinks == {sItems[k].link : k \in 1..Len(sItems)}

C6_OneRecordPerLink ==
    /\ sResult = "success" => Cardinality(DOMAIN store) = Cardinality(WrittenLinks)
    /\ \A a, b \in WriteItems : a.link # b.link => DocId(a.link) # DocId(b.link)

\* two different items of one link were written and one record is stored
C6_Witness ==
    /\ sResult = "success" /\ Len(sItems) = 2
    /\ sItems[1] # sItems[2] /\ sItems[1].link = sItems[2].link
    /\ DOMAIN store = {DocId(sItems[1].link)}
    /\ store[DocId(sItems[1].link)] = sItems[2]

\* C7: what getStoredFeedItems returns while a write cycle runs is the whole
\* collection as it was before that cycle or the whole set that cycle writes.
C7_ReaderSeesOldOrNew ==
    rSeen # None => rSeen[1] \in {StoredItems(rOld), StoredItems(rNew)}

(******************************* fetchRssFeed ******************************)
\* a faulty variant of ReturnedData: items whose summarization failed are left out
ReturnedDataDropsFailed(its) ==
    Data(SelectSeq(its, LAMBDA it : it.summary # FallbackSummary))

\* actions.ts:223
ReturnedData(its) == Data(its)

\* actions.ts:89-96, the call and the url validation
FetchCall ==
    /\ fPc \in {"idle", "returned"}
    /\ \E u \in Urls :
          /\ fUrl' = u
          /\ IF UrlValid(u)
             THEN fPc' = "fetching" /\ UNCHANGED fResult
             ELSE fPc' = "returned" /\ fResult' = Error(InvalidUrlError)
    /\ fItems' = <<>> /\ fPending' = {} /\ fEntered' = None
    /\ fDoc' = None /\ fOutcomes' = <<>>
    /\ UNCHANGED <<persisted, pageVars, reqVars, storeVars, readerVars>>
    /\ UNCHANGED <<hung, calcVars>>

FetchReturnsEarly(result) ==
    /\ fResult' = result /\ fPc' = "returned"
    /\ UNCHANGED <<fUrl, fItems, fPending, fEntered, fOutcomes>>

\* actions.ts:98-204 and 224-232: the response, the parse, the filters and the
\* start of one summarization task per displayable item
FetchResponds ==
    /\ fPc = "fetching"
    /\ \/ FetchReturnsEarly(Error(NetworkError)) /\ UNCHANGED fDoc
       \/ FetchReturnsEarly(Error(UnexpectedError)) /\ UNCHANGED fDoc
       \/ \E status \in {"404", "500"} :
             FetchReturnsEarly(Error(HttpError(status))) /\ UNCHANGED fDoc
       \/ \E doc \in Docs :
             /\ fDoc' = Some(doc)
             /\ IF ItemBlocks(doc) = <<>> THEN
                    IF IsFormatError(doc)
                    THEN FetchReturnsEarly(Error(FormatError))
                    ELSE FetchReturnsEarly(Data(<<>>))
                ELSE
                    LET displayableItems == DisplayableItems(doc.hasFeed, ItemBlocks(doc))
                    IN  /\ fItems' = displayableItems
                        /\ fEntered' = Some(displayableItems)
                        /\ fPending' = 1..Len(displayableItems)
                        /\ fOutcomes' = [k \in 1..Len(displayableItems) |-> None]
                        /\ fPc' = "summarizing"
                        /\ UNCHANGED <<fUrl, fResult>>
    /\ UNCHANGED <<persisted, pageVars, reqVars, storeVars, readerVars>>
    /\ UNCHANGED <<hung, calcVars>>

\* logActions.addLog, the append-only diagnostic log sink: a call resolves
AddLogOutcomes == {"resolved"}

\* actions.ts:204-218, one summarization task settles; a rejected addLog in
\* the catch (215) would reject Promise.all and reach the catch of 224-232
FetchSummarySettles ==
    /\ fPc = "summarizing"
    /\ \E k \in fPending : \E policy \in SummarizerBehaviours,
                               logged \in AddLogOutcomes :
          LET o == PolicyOutcome(policy, fItems[k].description)
          IN  /\ fOutcomes' = [fOutcomes EXCEPT ![k] = Some(policy)]
              /\ IF o.kind = "rejected" /\ logged # "resolved" THEN
                     /\ fResult' = Error(UnexpectedError) /\ fPc' = "returned"
                     /\ UNCHANGED <<fItems, fPending>>
                 ELSE
                     /\ fItems' = [fItems EXCEPT ![k] = Summarized(fItems[k], o)]
                     /\ fPending' = fPending \ {k}
                     /\ UNCHANGED <<fPc, fResult>>
    /\ UNCHANGED <<fUrl, fEntered, fDoc>>
    /\ UNCHANGED <<persisted, pageVars, reqVars, storeVars, readerVars>>
    /\ UNCHANGED <<hung, calcVars>>

\* a faulty variant of FetchReturns: the result is returned without waiting
\* for the tasks
FetchReturnsAtOnce ==
    /\ fPc = "summarizing"
    /\ fResult' = ReturnedData(fItems)
    /\ fPc' = "returned"
    /\ UNCHANGED <<fUrl, fItems, fPending, fEntered, fDoc, fOutcomes>>
    /\ UNCHANGED <<persisted, pageVars, reqVars, storeVars, readerVars>>
    /\ UNCHANGED <<hung, calcVars>>

\* actions.ts:220-223, Promise.all has resolved
FetchReturns ==
    /\ fPc = "summarizing" /\ fPending = {}
    /\ fResult' = ReturnedData(fItems)
    /\ fPc' = "returned"
    /\ UNCHANGED <<fUrl, fItems, fPending, fEntered, fDoc, fOutcomes>>
    /\ UNCHANGED <<persisted, pageVars, reqVars, storeVars, readerVars>>
    /\ UNCHANGED <<hung, calcVars>>

InitFetcher ==
    /\ sourceList = <<>> /\ store = EmptyStore
    /\ InitPage /\ InitStore /\ InitReader /\ InitFetch /\ InitCalc

NextFetch ==
    \/ FetchCall
    \/ FetchResponds
    \/ FetchSummarySettles
    \/ FetchReturns

\* calls of fetchRssFeed, one at a time
SpecFetch == InitFetcher /\ [][NextFetch]_vars

\* C10: a fetchRssFeed whose items entered summarization returns data, never an
\* error, with as many items as entered, the k-th returned item being the k-th
\* item that entered (same link) and carrying a summary, whichever of the
\* summarizations succeeded or failed.
C10_OneOutcomePerItem ==
    (fPc = "returned" /\ fEntered # None) =>
        /\ fResult.error = None /\ fResult.data # None
        /\ Len(fResult.data[1]) = Len(fEntered[1])
        /\ \A k \in 1..Len(fEntered[1]) :
              /\ fResult.data[1][k].link = fEntered[1][k].link
              /\ fResult.data[1][k].summary # None

\* two items entered; the summarization of one failed, of the other succeeded
C10_Witness ==
    /\ fPc = "returned" /\ fEntered # None /\ Len(fEntered[1]) >= 2
    /\ fResult.data # None /\ Len(fResult.data[1]) = Len(fEntered[1])
    /\ \E j, k \in 1..Len(fResult.data[1]) :
          /\ fResult.data[1][j].summary = FallbackSummary
          /\ fResult.data[1][k].summary \notin {None, FallbackSummary}

\* the items fetchRssFeed returned, the items that entered summarization
Returned == fResult.data[1]
Entered == fEntered[1]
\* the call of fetchRssFeed has returned the items that entered summarization
ReturnedSummarized == fPc = "returned" /\ fEntered # None /\ fResult.data # None
\* the external model was called for item k and threw, or the call of
\* summarizeReleaseNote for item k was rejected
CollaboratorFailed(k) ==
    /\ fOutcomes[k] # None
    /\ \/ fOutcomes[k][1].kind = "rejects"
       \/ /\ fOutcomes[k][1].kind = "throws"
          /\ ~IsShortContent(StripTags(Entered[k].description))

\* C11: an item whose summarization collaborator failed is returned with a
\* one-element summary and with the title, pubDate, product and subcomponent
\* the parser gave it, and the call still returns data.
C11_FailureKeepsParsedFields ==
    (fPc = "returned" /\ fEntered # None) =>
        /\ fResult.data # None
        /\ \A k \in 1..Len(Entered) :
              CollaboratorFailed(k) =>
                  /\ Returned[k].summary # None /\ Len(Returned[k].summary[1]) = 1
                  /\ Returned[k].title = Entered[k].title
                  /\ Returned[k].pubDate = Entered[k].pubDate
                  /\ Returned[k].product = Entered[k].product
                  /\ Returned[k].subcomponent = Entered[k].subcomponent

\* the call of summarizeReleaseNote for item k resolved, with this value
CallSucceeded(k) == fOutcomes[k] # None /\ fOutcomes[k][1].kind # "rejects"
ValueFor(k) == summarizeReleaseNoteFlow(Entered[k].description, fOutcomes[k][1])

\* C13: an item whose summarizeReleaseNote call resolved is returned with the
\* summary, product, subcomponent, title and pubDate of the value the call
\* gave, and with the link and the description it had before.
C13_SummarizerFieldsWin ==
    ReturnedSummarized =>
        \A k \in 1..Len(Entered) :
            CallSucceeded(k) =>
                /\ Returned[k].summary = Some(ValueFor(k).summary)
                /\ Returned[k].product = Some(ValueFor(k).product)
                /\ Returned[k].subcomponent = ValueFor(k).subcomponent
                /\ Returned[k].title = ValueFor(k).title
                /\ Returned[k].pubDate = ValueFor(k).pubDate
                /\ Returned[k].link = Entered[k].link
                /\ Returned[k].description = Entered[k].description

\* the model answered for an item with a title and a date other than the
\* parsed ones
C13_Witness ==
    /\ ReturnedSummarized
    /\ \E k \in 1..Len(Entered) :
          /\ CallSucceeded(k) /\ fOutcomes[k][1] = PromptFull
          /\ ~IsShortContent(StripTags(Entered[k].description))
          /\ Returned[k].title = FullOutput.title /\ Entered[k].title # FullOutput.title
          /\ Returned[k].pubDate = FullOutput.pubDate
          /\ Entered[k].pubDate # FullOutput.pubDate

\* the links of the blocks of the served document, placeholder included
BlockLinks ==
    {ExtractLink(fDoc[1].hasFeed, ItemBlocks(fDoc[1])[b].links) :
        b \in 1..Len(ItemBlocks(fDoc[1]))}
\* link is the link of an entry, or that link with the suffix of a section
ComesFrom(link, entryLink) ==
    \/ link = entryLink
    \/ /\ Len(link) > Len(entryLink) + 1
       /\ SubSeq(link, 1, Len(entryLink) + 1) = entryLink \o <<45>>

\* C14: every item fetchRssFeed returns has a non-empty title, a non-empty
\* link other than the placeholder, and comes from an entry whose link was not
\* the placeholder.
C14_ReturnedItemsHaveTitleAndRealLink ==
    (fPc = "returned" /\ fDoc # None /\ fResult.data # None) =>
        \A k \in 1..Len(Returned) :
            /\ Returned[k].title # <<>>
            /\ Returned[k].link # <<>> /\ Returned[k].link # Placeholder
            /\ \E l \in BlockLinks \ {Placeholder} : ComesFrom(Returned[k].link, l)

\* C15: when the served document has no block of its detected dialect,
\* fetchRssFeed returns an error and no data if the document holds neither
\* '<feed' nor '<rss', and an empty data list and no error otherwise.
C15_NoBlocksFormatErrorOrEmpty ==
    (fPc = "returned" /\ fDoc # None /\ ItemBlocks(fDoc[1]) = <<>>) =>
        IF ~fDoc[1].hasFeed /\ ~fDoc[1].hasRss
        THEN fResult = [data |-> None, error |-> Some(FormatError)]
        ELSE fResult = [data |-> Some(<<>>), error |-> None]

\* the text that is no feed gave the error, an Atom document without entries
\* an empty list
C15_Witness ==
    /\ fPc = "returned" /\ fDoc # None
    /\ \/ fDoc[1] = DocNotFeed /\ fResult.error = Some(FormatError) /\ fResult.data = None
       \/ fDoc[1] = DocEmptyAtom /\ fResult.data = Some(<<>>) /\ fResult.error = None

\* the items of the <item> blocks that have a title and a real link
ValidItemsOf(doc) == SelectSeq(ProcessedItems(FALSE, doc.rssItems), IsValidItem)

\* C16: for a served RSS document, fetchRssFeed returns data with one item per
\* item of the document that has a title and a real link, in document order,
\* whatever its date, each with the title and the summary the summarizer gave.
C16_OneItemPerValidBlock ==
    (fPc = "returned" /\ fDoc # None /\ fDoc[1].hasRss /\ ~fDoc[1].hasFeed) =>
        /\ fResult.data # None /\ fResult.error = None
        /\ Len(Returned) = Len(ValidItemsOf(fDoc[1]))
        /\ \A k \in 1..Len(Returned) :
              /\ Returned[k].link = ValidItemsOf(fDoc[1])[k].link
              /\ CallSucceeded(k) =>
                    /\ Returned[k].title = ValueFor(k).title
                    /\ Returned[k].summary = Some(ValueFor(k).summary)

(************************* summarizeReleaseNoteFlow ************************)
\* longest htmlContent, in lexemes, given to the flow
MaxText == 4
FlowLexemes == {Run49, "y", " ", "<p>", "<", ">"}
FlowInputs == SeqsUpTo(FlowLexemes, MaxText)

\* flow.ts:75-85, the flow is called: the text is stripped and short content
\* is returned at once
FlowCall ==
    /\ zPc = "idle"
    /\ \E html \in FlowInputs :
          /\ zHtml' = html
          /\ IF IsShortContent(StripTags(html))
             THEN /\ zResult' = Some(summarizeReleaseNoteFlow(html, [kind |-> "null"]))
                  /\ zPc' = "returned"
             ELSE /\ zResult' = None
                  /\ zPc' = "prompt"
    /\ zCalls' = 0 /\ zPrompt' = None
    /\ UNCHANGED <<persisted, pageVars, reqVars, storeVars, readerVars, fetchVars, hung>>
    /\ UNCHANGED <<parseVars, weekVars, decodeVars, adminVars>>

\* flow.ts:87-111, await prompt(input, ...) settles and the flow returns
FlowPromptSettles ==
    /\ zPc = "prompt"
    /\ \E p \in PromptOutcomes :
          /\ zPrompt' = Some(p)
          /\ zResult' = Some(summarizeReleaseNoteFlow(zHtml, p))
    /\ zCalls' = zCalls + 1
    /\ zPc' = "returned"
    /\ UNCHANGED <<persisted, pageVars, reqVars, storeVars, readerVars, fetchVars, hung>>
    /\ UNCHANGED <<parseVars, weekVars, decodeVars, adminVars>>
    /\ UNCHANGED zHtml

\* flow.ts:27-29, summarizeReleaseNote hands the value to its caller
FlowReturns ==
    /\ zPc = "returned"
    /\ zPc' = "idle" /\ zHtml' = <<>> /\ zCalls' = 0 /\ zPrompt' = None /\ zResult' = None
    /\ UNCHANGED <<persisted, pageVars, reqVars, storeVars, readerVars, fetchVars, hung>>
    /\ UNCHANGED <<parseVars, weekVars, decodeVars, adminVars>>

InitFlowSpec ==
    /\ sourceList = <<>> /\ store = EmptyStore
    /\ InitPage /\ InitStore /\ InitReader /\ InitFetch /\ InitCalc

NextFlow ==
    \/ FlowCall
    \/ FlowPromptSettles
    \/ FlowReturns

\* calls of summarizeReleaseNoteFlow, one at a time
SpecFlow == InitFlowSpec /\ [][NextFlow]_vars

\* the description with its markup lexemes removed, trimmed
MarkupStripped(text) == Trim(SelectSeq(text, LAMBDA tok : tok \notin Tags))

\* C12: for a description whose text without markup, trimmed, is shorter than
\* 50 characters the flow returns without a call of the prompt and its summary
\* is the one-element list of that text; from 50 characters on the prompt is
\* called exactly once.
C12_ShortContentSkipsModel ==
    zPc = "returned" =>
        IF TextLen(MarkupStripped(zHtml)) < 50
        THEN zCalls = 0 /\ zResult[1].summary = <<MarkupStripped(zHtml)>>
        ELSE zCalls = 1

(************************* the parser on one block *************************)
MaxBody == 4
\* the lexemes of a description: the section marker, its closing tag, a run
\* and a blank
BodyLexemes == {H3, H3Close, HeadRunA, " "}
\* what <description> or <content> holds: a text, bare or wrapped in CDATA
Descriptions ==
    LET bodies == SeqsUpTo(BodyLexemes, MaxBody)
    IN  bodies \cup {<<CDataOpen>> \o body \o <<CDataClose>> : body \in bodies}
ParseBlocks ==
    { Block(title, links, pubDate, Some(description)) :
        title \in {None, Some(<<HeadRunB>>)},
        links \in {<<>>, <<LinkEl("alternate", Some(LinkB))>>,
                   <<LinkEl("self", Some(LinkA1)), LinkEl("alternate", Some(LinkB))>>},
        pubDate \in {None, Some(DaysAgo(1)), Some(BadDate)},
        description \in Descriptions }

\* actions.ts:131-174, the flatMap callback runs on one block
ParseCall ==
    /\ pPc = "idle"
    /\ \E isAtom \in BOOLEAN, block \in ParseBlocks :
          /\ pIsAtom' = isAtom
          /\ pBlock' = Some(block)
          /\ pItems' = ProcessBlock(isAtom, block)
    /\ pPc' = "parsed"
    /\ UNCHANGED <<persisted, pageVars, reqVars, storeVars, readerVars, fetchVars, hung>>
    /\ UNCHANGED <<flowVars, weekVars, decodeVars, adminVars>>

\* the items join processedItems and the next block is taken
ParseNext ==
    /\ pPc = "parsed"
    /\ pPc' = "idle" /\ pIsAtom' = FALSE /\ pBlock' = None /\ pItems' = <<>>
    /\ UNCHANGED <<persisted, pageVars, reqVars, storeVars, readerVars, fetchVars, hung>>
    /\ UNCHANGED <<flowVars, weekVars, decodeVars, adminVars>>

InitParseSpec ==
    /\ sourceList = <<>> /\ store = EmptyStore
    /\ InitPage /\ InitStore /\ InitReader /\ InitFetch /\ InitCalc

NextParse ==
    \/ ParseCall
    \/ ParseNext

\* the parser, one block at a time
SpecParse == InitParseSpec /\ [][NextParse]_vars

\* the block being parsed: its content, the number of section markers in it,
\* its link and its date as the parser reads them
Content == ExtractDescription(pBlock[1])
Markers == Cardinality({i \in 1..Len(Content) : Content[i] = H3})
ParentLink == ExtractLink(pIsAtom, pBlock[1].links)
ParentDate == IF pBlock[1].pubDate # None THEN pBlock[1].pubDate[1] ELSE DateAt(Now)
FirstMarker == CHOOSE i \in 1..Len(Content) :
                   Content[i] = H3 /\ \A j \in 1..(i - 1) : Content[j] # H3
RECURSIVE Joined(_)
Joined(its) == IF its = <<>> THEN <<>> ELSE Head(its).description \o Joined(Tail(its))

\* C17: a block whose content holds N >= 1 section markers yields exactly N
\* items, in the order of the document; the i-th, counted from 0, has the
\* link of the block followed by '-i' and the date of the block, and the
\* items together hold the content from its first marker on, so nothing of
\* what precedes that marker; a block without a marker yields exactly one
\* item, with the link of the block unchanged.
C17_SplitterOneItemPerMarker ==
    pPc = "parsed" =>
        IF Markers >= 1
        THEN /\ Len(pItems) = Markers
             /\ \A i \in 1..Len(pItems) :
                   /\ pItems[i].link = ParentLink \o <<45>> \o Digits(i - 1)
                   /\ pItems[i].pubDate = ParentDate
                   /\ Head(pItems[i].description) = H3
                   /\ Cardinality({j \in 1..Len(pItems[i].description) :
                                      pItems[i].description[j] = H3}) = 1
             /\ Joined(pItems) = SubSeq(Content, FirstMarker, Len(Content))
        ELSE /\ Len(pItems) = 1
             /\ pItems[1].link = ParentLink
             /\ pItems[1].pubDate = ParentDate

\* two sections after a text that no item holds
C17_Witness ==
    /\ pPc = "parsed"
    /\ Markers = 2
    /\ FirstMarker > 1
    /\ Len(pItems) = 2
    /\ pItems[2].link = LinkB \o <<45, 49>>

(*************************** the weekly classifier *************************)
MaxWeek == 2
\* publication dates around the limits of the two weeks, one in the coming
\* hours, one in two days, an empty one and one that does not parse
WeekDates ==
    { NoDate, BadDate, DateAt(Now + 5), DateAt(Now + DayStart(2)),
      DaysAgo(0), DaysAgo(7), DateAt(Now - DayStart(7) - 23),
      DaysAgo(8), DaysAgo(14), DaysAgo(15) }
WeekItems == { NewItem(<<HeadRunA>>, LinkB, d, <<ShortRun>>) : d \in WeekDates }

\* page.tsx:275-303, Home renders: the items are put in their buckets
WeekRender ==
    /\ wPc = "idle"
    /\ \E its \in SeqsUpTo(WeekItems, MaxWeek) :
          /\ wItems' = its
          /\ wThisWeek' = thisWeekItems(its)
          /\ wLastWeek' = lastWeekItems(its)
    /\ wPc' = "rendered"
    /\ UNCHANGED <<persisted, pageVars, reqVars, storeVars, readerVars, fetchVars, hung>>
    /\ UNCHANGED <<flowVars, parseVars, decodeVars, adminVars>>

\* setItems gives Home other items
WeekNext ==
    /\ wPc = "rendered"
    /\ wPc' = "idle" /\ wItems' = <<>> /\ wThisWeek' = <<>> /\ wLastWeek' = <<>>
    /\ UNCHANGED <<persisted, pageVars, reqVars, storeVars, readerVars, fetchVars, hung>>
    /\ UNCHANGED <<flowVars, parseVars, decodeVars, adminVars>>

InitWeekSpec ==
    /\ sourceList = <<>> /\ store = EmptyStore
    /\ InitPage /\ InitStore /\ InitReader /\ InitFetch /\ InitCalc

NextWeek ==
    \/ WeekRender
    \/ WeekNext

\* renders of Home over lists of items
SpecClassify == InitWeekSpec /\ [][NextWeek]_vars

\* the age of a date in whole days, and whether it lies after now
WholeDayAge(date) == differenceInDays(Now, date.t)
IsFuture(date) == date.t > Now

\* C18: an item is in the current bucket iff its date parses, is not in the
\* future and its age d in whole days has 0 <= d <= 7; it is in the previous
\* bucket iff its date parses, is not in the future and 7 < d <= 14; with a
\* greater age, a future date, or a date that is missing or does not parse
\* it is in neither; no item is in both.
C18_WeeklyBuckets ==
    wPc = "rendered" =>
        \A i \in 1..Len(wItems) :
            LET date == wItems[i].pubDate
                dated == Parses(date) /\ ~IsFuture(date)
            IN  /\ (wItems[i] \in Range(wThisWeek)) <=>
                       (dated /\ WholeDayAge(date) >= 0 /\ WholeDayAge(date) <= 7)
                /\ (wItems[i] \in Range(wLastWeek)) <=>
                       (dated /\ WholeDayAge(date) > 7 /\ WholeDayAge(date) <= 14)
                /\ ~(wItems[i] \in Range(wThisWeek) /\ wItems[i] \in Range(wLastWeek))

\* the same without the future dates of less than a day: the limits 7, 8, 15
C18_BucketsOfPastDates ==
    wPc = "rendered" =>
        \A i \in 1..Len(wItems) :
            LET date == wItems[i].pubDate
                d == WholeDayAge(date)
            IN  (Parses(date) => ~(IsFuture(date) /\ d = 0)) =>
                /\ (wItems[i] \in Range(wThisWeek)) <=>
                       (Parses(date) /\ ~IsFuture(date) /\ d >= 0 /\ d <= 7)
                /\ (wItems[i] \in Range(wLastWeek)) <=>
                       (Parses(date) /\ ~IsFuture(date) /\ d > 7 /\ d <= 14)

(**************************** decodeHtmlEntities ***************************)
MaxPieces == 3
\* a text is made of these pieces: an ampersand, the rest of four entities,
\* and a letter
DecodePieces ==
    { <<"&">>, Tail(EntAmp), Tail(EntLt), Tail(EntQuot), Tail(EntApos39), <<"x">> }
DecodeInputs == { Flatten(ps) : ps \in SeqsUpTo(DecodePieces, MaxPieces) }

\* actions.ts:29-38, decodeHtmlEntities(text)
DecodeCall ==
    /\ dPc = "idle"
    /\ \E text \in DecodeInputs :
          /\ dText' = text
          /\ dOnce' = decodeHtmlEntities(text)
    /\ dPc' = "once" /\ dTwice' = <<>>
    /\ UNCHANGED <<persisted, pageVars, reqVars, storeVars, readerVars, fetchVars, hung>>
    /\ UNCHANGED <<flowVars, parseVars, weekVars, adminVars>>

\* decodeHtmlEntities on what the first call returned
DecodeAgain ==
    /\ dPc = "once"
    /\ dTwice' = decodeHtmlEntities(dOnce)
    /\ dPc' = "twice"
    /\ UNCHANGED <<dText, dOnce>>
    /\ UNCHANGED <<persisted, pageVars, reqVars, storeVars, readerVars, fetchVars, hung>>
    /\ UNCHANGED <<flowVars, parseVars, weekVars, adminVars>>

DecodeNext ==
    /\ dPc = "twice"
    /\ dPc' = "idle" /\ dText' = <<>> /\ dOnce' = <<>> /\ dTwice' = <<>>
    /\ UNCHANGED <<persisted, pageVars, reqVars, storeVars, readerVars, fetchVars, hung>>
    /\ UNCHANGED <<flowVars, parseVars, weekVars, adminVars>>

InitDecodeSpec ==
    /\ sourceList = <<>> /\ store = EmptyStore
    /\ InitPage /\ InitStore /\ InitReader /\ InitFetch /\ InitCalc

NextDecode ==
    \/ DecodeCall
    \/ DecodeAgain
    \/ DecodeNext

\* decodeHtmlEntities applied twice to a text
SpecDecode == InitDecodeSpec /\ [][NextDecode]_vars

\* C19: decoding what decodeHtmlEntities returned gives the same text again.
C19_DecodeIdempotent == dPc = "twice" => dTwice = dOnce

(********************* a session with a call that hangs ********************)
\* actions.ts:97-99 and 204-218: fetch is called without a signal or a
\* timeout and the summaries are awaited with Promise.all, so a server that
\* never answers, or one summarization that never settles, leaves the
\* fetchRssFeed call of its source pending for ever
LoadFeedsSourceHangs ==
    /\ pc = "fetch"
    /\ hung = {}
    /\ \E i \in 1..Len(feedUrls) :
          /\ results[i] = None
          /\ hung' = {i}
    /\ UNCHANGED <<persisted, pageVars, reqVars, storeVars, readerVars, fetchVars, calcVars>>

NextLive ==
    \/ Next
    \/ LoadFeedsSourceHangs

\* the steps of a running request that follow an await other than that of
\* the source calls
LoadFeedsStep ==
    \/ LoadFeedsGetUrls
    \/ LoadFeedsReadStore
    \/ LoadFeedsAggregate
    \/ StoreGetDocs
    \/ StoreDeleteCommit
    \/ StoreAddCommit
    \/ LoadFeedsStoreReturns

\* LoadFeedsSourceSettles is enabled: a call is pending and is not hung
\* (every source has at least one outcome)
SourcePending ==
    pc = "fetch" /\ \E i \in 1..Len(feedUrls) : results[i] = None /\ i \notin hung

\* weak fairness of LoadFeedsSourceSettles, written with its enabling
\* condition and with the only steps that change results during the fetch
SourcesSettle ==
    \/ []<>(~SourcePending)
    \/ []<><<pc = "fetch" /\ pc' = "fetch" /\ results' # results>>_vars

\* two sources are configured and nothing is stored yet
InitLive ==
    /\ sourceList = <<UrlA, UrlB>> /\ store = EmptyStore
    /\ InitPage /\ InitStore /\ InitReader /\ InitFetch /\ InitCalc

\* page.tsx:197-260: every awaited call that is not hung settles, and what
\* follows an await runs; a refresh is the user's choice
SpecLive == InitLive /\ [][NextLive]_vars /\ WF_vars(LoadFeedsStep) /\ SourcesSettle

\* C20: a request that fetches its sources finishes, with the items of the
\* sources that answered delivered, also when the call of one source never
\* settles.
C20_HungSourceDoesNotBlock ==
    (pc = "fetch") ~> (pc = "done" /\ ~isLoading /\ Aggregated)

\* a request none of whose calls hangs finishes
LiveWithoutHang ==
    (pc = "fetch" /\ hung = {}) ~> ((pc = "done" /\ ~isLoading /\ Aggregated) \/ hung # {})

\* the i-th section of the block being parsed: what follows its marker, and
\* the text between the marker and the closing tag, trimmed
SectionOf(i) == Tail(SplitOn(Content, H3))[i]
HeadingOf(i) ==
    LET close == IndexOf(SectionOf(i), H3Close)
    IN  IF close = 0 THEN <<>> ELSE Trim(SubSeq(SectionOf(i), 1, close - 1))
ParentTitle == IF pBlock[1].title # None THEN Trim(pBlock[1].title[1]) ELSE <<>>

\* C21: the title of the item of a section is the text between its marker and
\* the closing tag; when there is no closing tag, or no text before it, the
\* title is that of the block.
C21_SectionTitleOrParentTitle ==
    (pPc = "parsed" /\ Markers >= 1) =>
        \A i \in 1..Len(pItems) :
            pItems[i].title =
                IF HeadingOf(i) # <<>> THEN decodeHtmlEntities(HeadingOf(i))
                ELSE decodeHtmlEntities(ParentTitle)

\* the same for the sections whose closing tag follows some text or is absent
C21_TitleOfNonEmptyHeading ==
    (pPc = "parsed" /\ Markers >= 1) =>
        \A i \in 1..Len(pItems) :
            (HeadingOf(i) # <<>> \/ IndexOf(SectionOf(i), H3Close) = 0) =>
                pItems[i].title =
                    IF HeadingOf(i) # <<>> THEN decodeHtmlEntities(HeadingOf(i))
                    ELSE decodeHtmlEntities(ParentTitle)

\* the link elements of the block being parsed that carry an href, and those
\* among them with rel="alternate"
WithHref == SelectSeq(pBlock[1].links, LAMBDA l : l.href # None)
Alternates == SelectSeq(WithHref, LAMBDA l : l.rel = "alternate")

\* C22: the link of an Atom entry is the href of its link element with
\* rel="alternate" when it has one, wherever that element stands, and the href
\* of its first link element only when it has none.
C22_AtomPrefersAlternate ==
    (pPc = "parsed" /\ pIsAtom /\ Markers = 0 /\ WithHref # <<>>) =>
        pItems[1].link = IF Alternates # <<>> THEN Alternates[1].href[1]
                         ELSE WithHref[1].href[1]

\* no two sources of the running request have the same URL
SourcesDistinct ==
    \A i, j \in 1..Len(feedUrls) : feedUrls[i] = feedUrls[j] => i = j

\* C23: the items of one aggregated batch have pairwise distinct links, and
\* the snapshot written from the batch holds as many records as the batch has
\* items to store.
C23_BatchLinksDistinct ==
    (Aggregated /\ SourcesDistinct) =>
        /\ \A i, j \in 1..Len(items) : items[i].link = items[j].link => i = j
        /\ (pc = "done" /\ sResult = "success") =>
               Cardinality(DOMAIN store) = Len(ItemsToStore(items))

\* the fetched items of the running request, in the order of the sources
Fetched == Flatten([i \in 1..Len(results) |-> ItemsOf(i)])
\* a date that parses, is not after now, and is at most 14 whole days old
IsRecentPast(date) ==
    /\ Parses(date) /\ date.t <= Now
    /\ differenceInDays(Now, date.t) >= 0 /\ differenceInDays(Now, date.t) <= 14

\* C24: a refresh hands to the snapshot write exactly the fetched items whose
\* date parses, is not in the future and is at most 14 whole days old, and
\* hands to the page all the fetched items.
C24_OnlyRecentItemsWritten ==
    Aggregated =>
        /\ sItems = SelectSeq(Fetched, LAMBDA item : IsRecentPast(item.pubDate))
        /\ items = Fetched

\* the same, a date of the coming 24 hours counted as recent
C24_WrittenUpToADayAhead ==
    Aggregated =>
        /\ sItems = SelectSeq(Fetched, LAMBDA item :
                        \/ IsRecentPast(item.pubDate)
                        \/ (Parses(item.pubDate) /\ item.pubDate.t > Now
                              /\ item.pubDate.t - Now < 24))
        /\ items = Fetched
C24_SomeItemNotWritten ==
    /\ Aggregated /\ Len(sItems) < Len(items) /\ Len(sItems) > 0

(******************* one request with a call seen step by step *************)
\* page.tsx:263-272, the load of the page when it mounts
StageLoad == pc = "idle" /\ LoadFeedsStart

\* page.tsx:222, fetchRssFeed(url) is called for a source of the request; its
\* steps are those of actions.ts:89-233
StageFetchCall ==
    /\ pc = "fetch" /\ fPc = "idle"
    /\ FetchCall
    /\ \E i \in 1..Len(feedUrls) : results[i] = None /\ fUrl' = feedUrls[i]

\* page.tsx:222, the call seen step by step has returned: its value is the
\* result of its source
LoadFeedsSourceReturns ==
    /\ pc = "fetch" /\ fPc = "returned"
    /\ \E i \in 1..Len(feedUrls) :
          /\ feedUrls[i] = fUrl /\ results[i] = None
          /\ results' = [results EXCEPT ![i] = Some(fResult)]
    /\ reqSummaries' = reqSummaries
                       + (IF fResult.data # None THEN Len(fResult.data[1]) ELSE 0)
    /\ fPc' = "idle" /\ fUrl' = UrlA /\ fItems' = <<>> /\ fPending' = {}
    /\ fEntered' = None /\ fResult' = Data(<<>>) /\ fDoc' = None /\ fOutcomes' = <<>>
    /\ UNCHANGED <<persisted, items, isLoading, error, hasUrls, pc, fromCache, feedUrls,
                   reqFetches, reqStoreCalls, reqRead, reqWriteFailed, reqAll, storeAtStart,
                   storeVars, readerVars>>
    /\ UNCHANGED <<hung, calcVars>>

\* the call of another source settles as a whole
StageOtherSourceSettles ==
    /\ LoadFeedsSourceSettles
    /\ fPc # "idle" =>
          \A i \in 1..Len(feedUrls) : feedUrls[i] = fUrl => results'[i] = results[i]

\* two sources are configured and nothing is stored yet
InitStages ==
    /\ sourceList = <<UrlA, UrlB>> /\ store = EmptyStore
    /\ InitPage /\ InitStore /\ InitReader /\ InitFetch /\ InitCalc

NextStages ==
    \/ StageLoad
    \/ LoadFeedsGetUrls
    \/ LoadFeedsReadStore
    \/ StageFetchCall
    \/ FetchResponds
    \/ FetchSummarySettles
    \/ FetchReturns
    \/ LoadFeedsSourceReturns
    \/ StageOtherSourceSettles
    \/ LoadFeedsAggregate
    \/ StoreGetDocs
    \/ StoreDeleteCommit
    \/ StoreAddCommit
    \/ LoadFeedsStoreReturns

\* the first request of a page, one of its fetchRssFeed calls step by step
SpecStages == InitStages /\ [][NextStages]_vars

\* a call of fetchRssFeed has started and has not handed its value over
CallRunning == fPc # "idle"
\* the snapshot write of the request has started
WriteStarted == pc \in {"store", "done"} /\ reqStoreCalls > 0

\* no value is returned and no write is started while a task is pending
StagesInOrder ==
    /\ (fPc = "returned" /\ fEntered # None) =>
          (fPending = {} /\ \A k \in 1..Len(fOutcomes) : fOutcomes[k] # None)
    /\ (WriteStarted \/ sPc # "idle") =>
          (~CallRunning /\ Len(results) = Len(feedUrls)
              /\ \A i \in 1..Len(results) : results[i] # None)

\* a summarization task changes its own item only, a settled call its own
\* result only
OwnSlotOnly ==
    /\ (fPc = "summarizing" /\ fPc' = "summarizing" /\ fItems' # fItems) =>
          \E k \in fPending :
              /\ fPending' = fPending \ {k}
              /\ \A j \in 1..Len(fItems) : j # k => fItems'[j] = fItems[j]
    /\ (pc = "fetch" /\ pc' = "fetch" /\ results # <<>> /\ results' # results) =>
          \E i \in 1..Len(results) :
              /\ results[i] = None /\ results'[i] # None
              /\ \A j \in 1..Len(results) : j # i => results'[j] = results[j]

\* C25: fetchRssFeed returns its items only when the summarization task of
\* every item has settled, and loadFeeds starts the snapshot write only when
\* the call of every source has settled; each task changes only its own item
\* and each call only its own result.
C25_StageBarriers == []StagesInOrder /\ [][OwnSlotOnly]_vars

\* the write has started after a call of two items, seen step by step, was
\* the last to settle
C25_Witness ==
    /\ pc = "store" /\ Len(results) = 2
    /\ ItemsOf(1) # <<>>
    /\ Len(ItemsOf(2)) = 2
    /\ ItemsOf(2)[1].summary = FallbackSummary
    /\ ItemsOf(2)[2].summary \notin {None, FallbackSummary}

\* the table of decodeHtmlEntities: entity and character
EntityTable ==
    { <<EntLt, "<">>, <<EntGt, ">">>, <<EntAmp, "&">>, <<EntQuot, "\"">>,
      <<EntApos039, "'">>, <<EntApos39, "'">> }
StartsWith(text, prefix) ==
    Len(text) >= Len(prefix) /\ SubSeq(text, 1, Len(prefix)) = prefix
RECURSIVE SinglePass(_)
\* one pass over the text from left to right: an entity of the table becomes
\* its character, and what was put out is not read again
SinglePass(text) ==
    IF text = <<>> THEN <<>>
    ELSE IF \E e \in EntityTable : StartsWith(text, e[1])
    THEN LET e == CHOOSE e \in EntityTable : StartsWith(text, e[1])
         IN  <<e[2]>> \o SinglePass(SubSeq(text, Len(e[1]) + 1, Len(text)))
    ELSE <<Head(text)>> \o SinglePass(Tail(text))

\* C26: what decodeHtmlEntities returns is the input with every entity of the
\* table decoded once, in one pass from left to right; a text without an
\* entity of the table is returned as it is.
C26_DecodeIsOnePass == dPc \in {"once", "twice"} => dOnce = SinglePass(dText)

\* a text without an ampersand is returned as it is
C26_PlainTextUnchanged ==
    (dPc \in {"once", "twice"} /\ "&" \notin Range(dText)) => dOnce = dText

\* C27: when storeFeedItems has returned failure the collection is the whole
\* previous snapshot or the whole new one, never emptied nor partly written.
C27_FailedWriteLeavesOldOrNew ==
    sResult = "failure" => store \in {sBefore, AfterAdd(EmptyStore, sItems)}

(******************** a session whose calls all settle *********************)
\* page.tsx:197-260: every awaited call settles and what follows an await
\* runs; a refresh is the user's choice
SpecFair == InitLive /\ [][Next]_vars /\ WF_vars(LoadFeedsStep) /\ SourcesSettle

\* a request is running
Running == pc \in {"getUrls", "readStore", "fetch", "store"}

\* C28: a request that has started ends with isLoading false, whichever path
\* it takes (no source, cache hit, refresh with failing sources, failed read
\* of the store, failed write), and isLoading is true while it runs.
C28_LoadingEndsOnEveryPath ==
    /\ [](Running => isLoading)
    /\ [](pc = "done" => ~isLoading)
    /\ Running ~> (pc = "done")

\* a refresh after a failed read of the store, with a failing source and a
\* failed write, has ended
C28_Witness ==
    /\ pc = "done" /\ ~isLoading
    /\ reqRead = "failed" /\ reqWriteFailed
    /\ \E i \in 1..Len(results) : results[i][1].error # None

\* C29: every item that fetchRssFeed returns has, when it is returned, a date
\* that parses and lies in the month of now or in the month before, also
\* when the summarization has replaced the parsed date.
C29_ReturnedItemsAreOfTheMonth ==
    (fPc = "returned" /\ fResult.data # None) =>
        \A k \in 1..Len(fResult.data[1]) :
            LET date == fResult.data[1][k].pubDate
            IN  /\ Parses(date)
                /\ MonthOf(date.t) \in {MonthOf(Now), MonthOf(SubOneMonth(Now))}

\* ---------------------------------------------------------------------------
\* The admin page: one session of adding and removing sources
\* ---------------------------------------------------------------------------

\* Source (actions.ts:12-14)
SourceTypes == {"rss", "webpage"}
SourceOf(type, url) == [type |-> type, url |-> url]

\* what the URL field can hold when the form is submitted: nothing, a URL, or
\* a text that new URL() throws on
AdminInputs == {"", UrlA, UrlB, UrlBad}
ParsesAsUrl(url) == url \in {UrlA, UrlB}

\* sources.some(source => source.url === newUrl)
HasUrl(list, url) == \E k \in 1..Len(list) : list[k].url = url

\* sources.filter(source => source.url !== sourceToRemove.url)
WithoutUrl(list, url) == SelectSeq(list, LAMBDA source : source.url # url)

\* the sources/default documents a session can find
AdminDocs ==
    { <<>>,
      <<SourceOf("rss", UrlA)>>,
      <<SourceOf("rss", UrlA), SourceOf("webpage", UrlB)>> }

\* getSources: the list of the document, or [] when the read throws
GetSourcesOutcomes == {aDoc, <<>>}

\* loadData: setSources(fetchedSources)
AdminLoad ==
    /\ ~aLoaded
    /\ \E fetched \in GetSourcesOutcomes :
          /\ aSources' = fetched
          /\ aKnown' = fetched
    /\ aLoaded' = TRUE /\ aAct' = "load"
    /\ UNCHANGED <<aDoc, aIsSaving, aPending, aToast, aUrl, aFailed>>
    /\ UNCHANGED <<persisted, pageVars, reqVars, storeVars, readerVars, fetchVars, hung>>
    /\ UNCHANGED <<flowVars, parseVars, weekVars, decodeVars>>

\* a faulty variant of handleAddSource: no duplicate check
AdminAddUnchecked ==
    /\ \E newUrl \in AdminInputs, newSourceType \in SourceTypes :
          /\ aUrl' = newUrl
          /\ IF newUrl = "" \/ aIsSaving
             THEN UNCHANGED <<aIsSaving, aPending, aToast>>
             ELSE IF ~ParsesAsUrl(newUrl)
             THEN aToast' = "Invalid URL" /\ UNCHANGED <<aIsSaving, aPending>>
             ELSE /\ aIsSaving' = TRUE
                  /\ aPending' = Some(Append(aSources, SourceOf(newSourceType, newUrl)))
                  /\ UNCHANGED aToast
    /\ aAct' = "add"
    /\ UNCHANGED <<aSources, aDoc, aLoaded, aKnown, aFailed>>
    /\ UNCHANGED <<persisted, pageVars, reqVars, storeVars, readerVars, fetchVars, hung>>
    /\ UNCHANGED <<flowVars, parseVars, weekVars, decodeVars>>

\* handleAddSource up to the await of saveSources inside handleSave
AdminAdd ==
    /\ \E newUrl \in AdminInputs, newSourceType \in SourceTypes :
          /\ aUrl' = newUrl
          /\ IF newUrl = "" \/ aIsSaving
             THEN UNCHANGED <<aIsSaving, aPending, aToast>>
             ELSE IF ~ParsesAsUrl(newUrl)
             THEN aToast' = "Invalid URL" /\ UNCHANGED <<aIsSaving, aPending>>
             ELSE IF HasUrl(aSources, newUrl)
             THEN aToast' = "Duplicate URL" /\ UNCHANGED <<aIsSaving, aPending>>
             ELSE /\ aIsSaving' = TRUE
                  /\ aPending' = Some(Append(aSources, SourceOf(newSourceType, newUrl)))
                  /\ UNCHANGED aToast
    /\ aAct' = "add"
    /\ UNCHANGED <<aSources, aDoc, aLoaded, aKnown, aFailed>>
    /\ UNCHANGED <<persisted, pageVars, reqVars, storeVars, readerVars, fetchVars, hung>>
    /\ UNCHANGED <<flowVars, parseVars, weekVars, decodeVars>>

\* handleRemoveSource up to the await of saveSources inside handleSave
AdminRemove ==
    /\ ~aIsSaving
    /\ \E k \in 1..Len(aSources) :
          /\ aUrl' = aSources[k].url
          /\ aPending' = Some(WithoutUrl(aSources, aSources[k].url))
    /\ aIsSaving' = TRUE /\ aAct' = "remove"
    /\ UNCHANGED <<aSources, aDoc, aLoaded, aToast, aKnown, aFailed>>
    /\ UNCHANGED <<persisted, pageVars, reqVars, storeVars, readerVars, fetchVars, hung>>
    /\ UNCHANGED <<flowVars, parseVars, weekVars, decodeVars>>

\* saveSources returns { success: true }: the document holds the list, and
\* handleSave displays it
AdminSaveSucceeds ==
    /\ aPending # None
    /\ aDoc' = aPending[1] /\ aSources' = aPending[1] /\ aKnown' = aPending[1]
    /\ aToast' = "Success" /\ aIsSaving' = FALSE /\ aPending' = None
    /\ aAct' = "saved"
    /\ UNCHANGED <<aLoaded, aUrl, aFailed>>
    /\ UNCHANGED <<persisted, pageVars, reqVars, storeVars, readerVars, fetchVars, hung>>
    /\ UNCHANGED <<flowVars, parseVars, weekVars, decodeVars>>

\* saveSources returns { success: false }: setDoc threw
AdminSaveFails ==
    /\ aPending # None
    /\ aToast' = "Error" /\ aIsSaving' = FALSE /\ aPending' = None
    /\ aAct' = "failed" /\ aFailed' = TRUE
    /\ UNCHANGED <<aSources, aDoc, aLoaded, aKnown, aUrl>>
    /\ UNCHANGED <<persisted, pageVars, reqVars, storeVars, readerVars, fetchVars, hung>>
    /\ UNCHANGED <<flowVars, parseVars, weekVars, decodeVars>>

InitAdminSpec ==
    /\ sourceList = <<>> /\ store = EmptyStore
    /\ InitPage /\ InitStore /\ InitReader /\ InitFetch
    /\ hung = {} /\ InitFlow /\ InitParse /\ InitWeek /\ InitDecode
    /\ aDoc \in AdminDocs
    /\ aSources = <<>> /\ aLoaded = FALSE /\ aIsSaving = FALSE
    /\ aPending = None /\ aToast = "none" /\ aKnown = <<>> /\ aAct = "none"
    /\ aUrl = "" /\ aFailed = FALSE

NextAdmin ==
    \/ AdminLoad
    \/ AdminAdd
    \/ AdminRemove
    \/ AdminSaveSucceeds
    \/ AdminSaveFails

\* one session of the admin page
SpecAdmin == InitAdminSpec /\ [][NextAdmin]_vars

\* no two sources of the list have the same URL
UrlsDistinct(list) ==
    \A j, k \in 1..Len(list) : list[j].url = list[k].url => j = k

\* an add of a URL that the displayed list holds: nothing is saved
DuplicateAddRejected ==
    (aAct' = "add" /\ ~aIsSaving /\ HasUrl(aSources, aUrl'))
        => /\ aPending' = None /\ ~aIsSaving'
           /\ aSources' = aSources /\ aDoc' = aDoc

\* a save that fails: the displayed list is the list last loaded or saved with
\* success, and the document is as it was
FailedSaveKeepsList ==
    aAct' = "failed" => aSources' = aKnown' /\ aSources' = aSources /\ aDoc' = aDoc

\* C30: over the adds and removes of one admin session neither the displayed
\* list nor the saved list holds two sources with the same URL; an add of a
\* URL of the displayed list is rejected without a save, and after a save that
\* fails the displayed list is the list last saved with success (or loaded,
\* when none was saved yet).
C30_SourceListHasNoDuplicate ==
    /\ [](UrlsDistinct(aSources) /\ UrlsDistinct(aDoc))
    /\ [][DuplicateAddRejected /\ FailedSaveKeepsList]_vars

C30_Witness ==
    /\ aToast = "Duplicate URL" /\ aAct = "add" /\ aFailed
    /\ Len(aSources) = 2 /\ aDoc = aSources

====
